---- MODULE Spec2Model ----
(***************************************************************************)
(* A model of the go-gopher server engine (src/gopher.go): the response    *)
(* writer's mode machine, the connection lifecycle of Server.Serve and     *)
(* conn.serve, and the request multiplexer ServeMux.                       *)
(*                                                                         *)
(* Strings of the program are TLA+ strings; one byte is one character.     *)
(***************************************************************************)
EXTENDS Integers, Sequences, FiniteSets, TLC

(***************************************************************************)
(* Bounds of the model.                                                    *)
(***************************************************************************)
\* Writer calls (Write, WriteItem, WriteInfo, WriteError) made by all the
\* handler invocations of one run together.
MaxCalls == 3
\* Items of a Directory handed to ToText.
MaxItems == 2
\* Size of the bufio.Writer buffer of a response, scaled down from bufio's
\* default so that a reply overflows it and is flushed in pieces.
BufSize == 8

(***************************************************************************)
(* Protocol constants.                                                     *)
(***************************************************************************)
FILE == "0"
DIRECTORY == "1"
ERROR == "3"
INFO == "i"
INDEXSEARCH == "7"
BINARY == "9"
\* The item types of the program, by their wire character.
ItemTypes ==
    {"0", "1", "2", "3", "4", "5", "6", "7", "8", "9", "+", "T", "g", "I",
     "i", "h", "s", "p", "d"}
END == "."
TAB == "\t"
CRLF == "\r\n"

\* The nil Handler.
Nil == "nil"
\* The handler value NotFoundHandler() returns.
NotFoundH == "NotFound"

(***************************************************************************)
(* Configuration of the modelled server and the inputs of the model.       *)
(***************************************************************************)
\* Host and port of the listener's bound address, and Server.Hostname.
ListenHost == "localhost"
ListenPort == 7000
Hostname == ""

\* The connections clients open to the server.
Conns == {"c1", "c2"}
\* Application handlers (arbitrary code using the ResponseWriter).
AppHandlers == {"hello", "files"}
\* What the scanner of readRequest yields: the first line of the stream
\* without its line end, or no token because the read hit EOF, a timeout
\* or another error before any data arrived.
ReadResults ==
    {[kind |-> "line", text |-> s] : s \in {"", "hello", "/other"}}
        \cup {[kind |-> k, text |-> ""] : k \in {"eof", "timeout", "error"}}
\* Arguments the application handlers pass to the writer.
Docs == {"Foo!"}
Msgs == {"Hello World!"}
Items ==
    {[Type |-> FILE, Description |-> "foo", Selector |-> "/foo",
      Host |-> "", Port |-> 0, Extras |-> <<>>]}
\* Patterns the served application registers before it starts listening.
AppPatterns == {"/hello"}
\* Arguments of the router calls of the router specification.
Patterns == {"", "/", "/images", "/images/", "/hello"}
Selectors == {"/", "/images", "/images/", "/images/thumb.png", "/other", "/hello"}
\* ... and selectors with '..' and '.' elements and repeated slashes.
UncleanSelectors ==
    {"/images/../hello", "/images//thumb.png", "/./hello", "//hello", "/hello/."}

(***************************************************************************)
(* Strings.                                                                *)
(***************************************************************************)
Char(s, i) == SubSeq(s, i, i)

HasPrefix(s, prefix) ==
    Len(s) >= Len(prefix) /\ SubSeq(s, 1, Len(prefix)) = prefix

Digits == "0123456789"

\* The int of the program is taken at the width of a 32-bit build; a 64-bit
\* build behaves alike at its own width.  A magnitude up to 2^32 - 1 is kept
\* as two 16-bit halves.
MaxInt == 2147483647
MinInt == -MaxInt - 1
Half == 65536

\* strconv.Itoa.  For a negative n the digits are those of -n, taken without
\* forming -n.
RECURSIVE Itoa(_)
Itoa(n) ==
    IF n < 0
    THEN LET r == (10 - (n % 10)) % 10
             q == -((n + r) \div 10)
         IN "-" \o (IF q = 0 THEN "" ELSE Itoa(q)) \o Char(Digits, r + 1)
    ELSE IF n < 10 THEN Char(Digits, n + 1)
    ELSE Itoa(n \div 10) \o Char(Digits, (n % 10) + 1)

IsDigit(ch) == \E d \in 0..9 : Char(Digits, d + 1) = ch
DigitVal(ch) == CHOOSE d \in 0..9 : Char(Digits, d + 1) = ch

\* strconv.ParseUint(s, 10, 32) on a non-empty s, digit by digit: a byte
\* that is no digit is a syntax error, a value above 2^32 - 1 a range error,
\* whichever comes first.  hi and lo are the halves of the value so far.
RECURSIVE ParseUintLoop(_, _, _)
ParseUintLoop(s, hi, lo) ==
    IF s = "" THEN [err |-> "nil", hi |-> hi, lo |-> lo]
    ELSE IF ~IsDigit(Char(s, 1)) THEN [err |-> "syntax", hi |-> 0, lo |-> 0]
    ELSE LET l1 == lo * 10 + DigitVal(Char(s, 1))
             h1 == hi * 10 + (l1 \div Half)
         IN IF h1 >= Half THEN [err |-> "range", hi |-> Half - 1, lo |-> Half - 1]
            ELSE ParseUintLoop(Tail(s), h1, l1 % Half)

\* strconv.Atoi: the value and the error ("nil", "syntax" or "range").  On
\* a syntax error the value is 0, on a range error the nearest int.
Atoi(s) ==
    LET neg == s # "" /\ Char(s, 1) = "-"
        signed == s # "" /\ Char(s, 1) \in {"+", "-"}
        digits == IF signed THEN Tail(s) ELSE s
        un == ParseUintLoop(digits, 0, 0)
        cutoff == Half \div 2
    IN IF digits = "" \/ un.err = "syntax" THEN [n |-> 0, err |-> "syntax"]
       ELSE IF ~neg /\ un.hi >= cutoff THEN [n |-> MaxInt, err |-> "range"]
       ELSE IF neg /\ (un.hi > cutoff \/ (un.hi = cutoff /\ un.lo > 0))
            THEN [n |-> MinInt, err |-> "range"]
       ELSE IF un.err = "range" THEN [n |-> IF neg THEN MinInt ELSE MaxInt,
                                      err |-> "range"]
       ELSE IF neg /\ un.hi = cutoff THEN [n |-> MinInt, err |-> "nil"]
       ELSE LET v == un.hi * Half + un.lo
            IN [n |-> IF neg THEN -v ELSE v, err |-> "nil"]

\* strings.Trim(s, "\r\n"): s without the leading and the trailing bytes
\* that are CR or LF.
IsEOL(ch) == ch = "\r" \/ ch = "\n"

RECURSIVE TrimLeft(_)
TrimLeft(s) ==
    IF s # "" /\ IsEOL(Char(s, 1)) THEN TrimLeft(Tail(s)) ELSE s

RECURSIVE TrimRight(_)
TrimRight(s) ==
    IF s # "" /\ IsEOL(Char(s, Len(s))) THEN TrimRight(SubSeq(s, 1, Len(s) - 1))
    ELSE s

Trim(s) == TrimRight(TrimLeft(s))

\* The byte 0 ("\x00" in the source).  A string of TLA+ has no escape for
\* it: the form feed, which occurs in no other input and which no
\* operation of the program treats apart, stands for it.
NUL == "\f"

\* strings.IndexByte, counted from 1: the place of the first ch in s, or 0.
IndexByte(s, ch) ==
    LET at == {k \in 1..Len(s) : Char(s, k) = ch}
    IN IF at = {} THEN 0 ELSE CHOOSE k \in at : \A j \in at : k <= j

\* strings.Split(s, sep) for a separator of one byte: the fields of s, one
\* more than s has separators.
RECURSIVE Split(_, _)
Split(s, sep) ==
    LET k == IndexByte(s, sep)
    IN IF k = 0 THEN <<s>>
       ELSE <<SubSeq(s, 1, k - 1)>> \o Split(SubSeq(s, k + 1, Len(s)), sep)

(***************************************************************************)
(* Item codec.                                                             *)
(***************************************************************************)
RECURSIVE MarshalExtras(_)
MarshalExtras(extras) ==
    IF extras = <<>> THEN ""
    ELSE TAB \o Head(extras) \o MarshalExtras(Tail(extras))

\* MarshalText ending the line with a bare LF.
MarshalTextBareLF(i) ==
    i.Type \o i.Description \o TAB \o i.Selector \o TAB \o i.Host \o TAB
        \o Itoa(i.Port) \o MarshalExtras(i.Extras) \o "\n"

\* MarshalText leaving the extras out.
MarshalTextNoExtras(i) ==
    i.Type \o i.Description \o TAB \o i.Selector \o TAB \o i.Host \o TAB
        \o Itoa(i.Port) \o CRLF

MarshalText(i) ==
    i.Type \o i.Description \o TAB \o i.Selector \o TAB \o i.Host \o TAB
        \o Itoa(i.Port) \o MarshalExtras(i.Extras) \o CRLF

\* ParseItem(line): the item and the error ("nil", "no item type", or the
\* error of Atoi).  NoItem stands for the nil *Item.
NoItem == [Type |-> "", Description |-> "", Selector |-> "", Host |-> "",
           Port |-> 0, Extras |-> <<>>]

\* ParseItem taking the extras from the port field on.
ParseItemExtrasFromPort(line) ==
    LET parts == Split(Trim(line), TAB)
        type == Char(parts[1], 1)
        port == Atoi(parts[4])
    IN IF Len(parts[1]) < 1 THEN [item |-> NoItem, err |-> "no item type"]
       ELSE IF Len(parts) > 3 /\ port.err # "nil" /\ type # INFO
            THEN [item |-> NoItem, err |-> port.err]
       ELSE [item |->
                [Type |-> type,
                 Description |-> SubSeq(parts[1], 2, Len(parts[1])),
                 Selector |-> IF Len(parts) > 1 THEN parts[2] ELSE "",
                 Host |-> IF Len(parts) > 2 THEN parts[3] ELSE "null.host",
                 Port |-> IF Len(parts) > 3 THEN port.n ELSE 0,
                 Extras |-> IF Len(parts) >= 4
                            THEN SubSeq(parts, 4, Len(parts)) ELSE <<>>],
             err |-> "nil"]

\* ParseItem without the check of field 0.
ParseItemNoTypeCheck(line) ==
    LET parts == Split(Trim(line), TAB)
        type == IF parts[1] = "" THEN "" ELSE Char(parts[1], 1)
        port == Atoi(parts[4])
    IN IF Len(parts) > 3 /\ port.err # "nil" /\ type # INFO
            THEN [item |-> NoItem, err |-> port.err]
       ELSE [item |->
                [Type |-> type,
                 Description |-> SubSeq(parts[1], 2, Len(parts[1])),
                 Selector |-> IF Len(parts) > 1 THEN parts[2] ELSE "",
                 Host |-> IF Len(parts) > 2 THEN parts[3] ELSE "null.host",
                 Port |-> IF Len(parts) > 3 THEN port.n ELSE 0,
                 Extras |-> IF Len(parts) >= 4
                            THEN SubSeq(parts, 5, Len(parts)) ELSE <<>>],
             err |-> "nil"]

ParseItem(line) ==
    LET parts == Split(Trim(line), TAB)
        type == Char(parts[1], 1)
        port == Atoi(parts[4])
    IN IF Len(parts[1]) < 1 THEN [item |-> NoItem, err |-> "no item type"]
       ELSE IF Len(parts) > 3 /\ port.err # "nil" /\ type # INFO
            THEN [item |-> NoItem, err |-> port.err]
       ELSE [item |->
                [Type |-> type,
                 Description |-> SubSeq(parts[1], 2, Len(parts[1])),
                 Selector |-> IF Len(parts) > 1 THEN parts[2] ELSE "",
                 Host |-> IF Len(parts) > 2 THEN parts[3] ELSE "null.host",
                 \* item.Port = 0 of the INFO case is overwritten by
                 \* item.Port = port
                 Port |-> IF Len(parts) > 3 THEN port.n ELSE 0,
                 Extras |-> IF Len(parts) >= 4
                            THEN SubSeq(parts, 5, Len(parts)) ELSE <<>>],
             err |-> "nil"]

isDirectoryLike(i) == i.Type = DIRECTORY \/ i.Type = INDEXSEARCH

\* Directory.ToText
RECURSIVE ToText(_)
ToText(items) ==
    IF items = <<>> THEN "" ELSE MarshalText(Head(items)) \o ToText(Tail(items))

(***************************************************************************)
(* The client.  A network environment net tells what the client's calls on *)
(* the transport meet: whether net.Dial succeeds (dial), whether the write *)
(* of the request does (write), and the bytes the peer then sends until it *)
(* closes or the read fails (reply).                                       *)
(***************************************************************************)
\* bufio.ScanLines over the whole stream: the tokens are the pieces between
\* LFs, each without one trailing CR; bytes after the last LF are a token
\* when there are any.
dropCR(line) ==
    IF line # "" /\ Char(line, Len(line)) = "\r"
    THEN SubSeq(line, 1, Len(line) - 1) ELSE line

RECURSIVE ScanLines(_)
ScanLines(data) ==
    LET k == IndexByte(data, "\n")
    IN IF k = 0 THEN (IF data = "" THEN <<>> ELSE <<dropCR(data)>>)
       ELSE <<dropCR(SubSeq(data, 1, k - 1))>>
                \o ScanLines(SubSeq(data, k + 1, Len(data)))

\* The scan loop of FetchDirectory over the tokens left, items being the
\* items collected so far.
RECURSIVE scanLoop(_, _), scanLoopStopAtRejected(_, _), scanLoopNoEnd(_, _)
\* The scan loop ending at the first line the codec rejects.
scanLoopStopAtRejected(tokens, items) ==
    IF tokens = <<>> THEN items
    ELSE LET line == Trim(Head(tokens))
             r == ParseItem(line)
         IN IF Len(line) = 0 THEN scanLoopStopAtRejected(Tail(tokens), items)
            ELSE IF Len(line) = 1 /\ Char(line, 1) = END THEN items
            ELSE IF r.err # "nil" THEN items
            ELSE scanLoopStopAtRejected(Tail(tokens), Append(items, r.item))

\* The scan loop taking the line that is solely '.' for an item line.
scanLoopNoEnd(tokens, items) ==
    IF tokens = <<>> THEN items
    ELSE LET line == Trim(Head(tokens))
             r == ParseItem(line)
         IN IF Len(line) = 0 THEN scanLoopNoEnd(Tail(tokens), items)
            ELSE IF r.err # "nil" THEN scanLoopNoEnd(Tail(tokens), items)
            ELSE scanLoopNoEnd(Tail(tokens), Append(items, r.item))

scanLoop(tokens, items) ==
    IF tokens = <<>> THEN items
    ELSE LET line == Trim(Head(tokens))
             r == ParseItem(line)
         IN IF Len(line) = 0 THEN scanLoop(Tail(tokens), items)
            ELSE IF Len(line) = 1 /\ Char(line, 1) = END THEN items
            ELSE IF r.err # "nil" THEN scanLoop(Tail(tokens), items)
            ELSE scanLoop(Tail(tokens), Append(items, r.item))

\* The result of a fetch: its error, whether it dialed, the bytes it sent,
\* and the Directory or the body it returns.
Fetched(err, dialed, sent, dir, body) ==
    [err |-> err, dialed |-> dialed, sent |-> sent, dir |-> dir, body |-> body]

\* Item.FetchFile
FetchFile(i, net) ==
    IF i.Type = DIRECTORY
    THEN Fetched("cannot fetch a directory as a file", FALSE, "", <<>>, "")
    ELSE IF ~net.dial THEN Fetched("dial", TRUE, "", <<>>, "")
    ELSE IF ~net.write THEN Fetched("write", TRUE, "", <<>>, "")
    ELSE Fetched("nil", TRUE, i.Selector \o CRLF, <<>>, net.reply)

\* FetchDirectory reporting a reply that ends without a '.' line.
FetchDirectoryStrict(i, net) ==
    IF ~isDirectoryLike(i)
    THEN Fetched("cannot fetch a file as a directory", FALSE, "", <<>>, "")
    ELSE IF ~net.dial THEN Fetched("dial", TRUE, "", <<>>, "")
    ELSE IF ~net.write THEN Fetched("write", TRUE, "", <<>>, "")
    ELSE IF \A k \in DOMAIN ScanLines(net.reply) :
                Trim(ScanLines(net.reply)[k]) # END
    THEN Fetched("unexpected EOF", TRUE, i.Selector \o CRLF, <<>>, "")
    ELSE Fetched("nil", TRUE, i.Selector \o CRLF,
                 scanLoop(ScanLines(net.reply), <<>>), "")

\* Item.FetchDirectory
FetchDirectory(i, net) ==
    IF ~isDirectoryLike(i)
    THEN Fetched("cannot fetch a file as a directory", FALSE, "", <<>>, "")
    ELSE IF ~net.dial THEN Fetched("dial", TRUE, "", <<>>, "")
    ELSE IF ~net.write THEN Fetched("write", TRUE, "", <<>>, "")
    ELSE Fetched("nil", TRUE, i.Selector \o CRLF,
                 scanLoop(ScanLines(net.reply), <<>>), "")

\* Get(uri) from the parsed URL u on: the error, the Item it builds and
\* the result of the fetch it makes for it.
Get(u, net) ==
    LET hostport == Split(u.Host, ":")
        n == Atoi(hostport[2])
        host == hostport[1]
        port == IF Len(hostport) = 2 THEN n.n ELSE 70
        path == IF HasPrefix(u.Path, "/") THEN Tail(u.Path) ELSE u.Path
        Type == IF Len(path) > 2 THEN Char(path, 1)
                ELSE IF Len(path) = 1 THEN Char(path, 1)
                ELSE DIRECTORY
        Selector == IF Len(path) > 2
                    THEN Tail(path) \o
                         (IF u.RawQuery # "" THEN "\t" \o u.RawQuery ELSE "")
                    ELSE ""
        i == [Type |-> Type, Description |-> "", Selector |-> Selector,
              Host |-> host, Port |-> port, Extras |-> <<>>]
        f == IF isDirectoryLike(i) THEN FetchDirectory(i, net)
             ELSE FetchFile(i, net)
    IN IF u.Scheme # "gopher"
       THEN [err |-> "invalid scheme for uri", item |-> NoItem,
             fetch |-> Fetched("nil", FALSE, "", <<>>, "")]
       ELSE IF Len(hostport) = 2 /\ n.err # "nil"
       THEN [err |-> n.err, item |-> NoItem,
             fetch |-> Fetched("nil", FALSE, "", <<>>, "")]
       ELSE [err |-> f.err, item |-> i, fetch |-> f]

(***************************************************************************)
(* The buffered writer of a response and the transport under it.  A stream *)
(* state w has the mode tag rt of the response (0 undetermined, 1 document,*)
(* 2 menu), the bytes buf held in the bufio.Writer, its sticky error err,  *)
(* and the bytes wire the transport has taken.  up tells whether the peer  *)
(* still takes bytes: a write to the transport fails once it does not.     *)
(***************************************************************************)
NewResponse == [rt |-> 0, buf |-> "", err |-> FALSE, wire |-> ""]

\* bufio.Writer.Flush
bufioFlush(w, up) ==
    IF w.err THEN w
    ELSE IF w.buf = "" THEN w
    ELSE IF up THEN [w EXCEPT !.wire = @ \o w.buf, !.buf = ""]
    ELSE [w EXCEPT !.err = TRUE]

\* bufio.Writer.Write
RECURSIVE bufioWrite(_, _, _)
bufioWrite(w, p, up) ==
    IF Len(p) > BufSize - Len(w.buf) /\ ~w.err
    THEN IF w.buf = ""
         THEN \* large write, empty buffer: written directly to the transport
              IF up THEN bufioWrite([w EXCEPT !.wire = @ \o p], "", up)
              ELSE bufioWrite([w EXCEPT !.err = TRUE], p, up)
         ELSE LET n == BufSize - Len(w.buf)
              IN bufioWrite(bufioFlush([w EXCEPT !.buf = @ \o SubSeq(p, 1, n)], up),
                            SubSeq(p, n + 1, Len(p)), up)
    ELSE IF w.err THEN w
    ELSE [w EXCEPT !.buf = @ \o p]

\* The result of a writer call: the stream state after it, the error it
\* returns ("nil", "conflict" or "io"), the bytes it handed to the buffered
\* writer and the items those bytes are the lines of.
Result(w, err, p) == [w |-> w, err |-> err, p |-> p, items |-> <<>>]

Buffered(w, p, up) ==
    LET w2 == bufioWrite(w, p, up)
    IN Result(w2, IF w2.err THEN "io" ELSE "nil", p)

(***************************************************************************)
(* The response writer.                                                    *)
(***************************************************************************)
\* Write without the check of the mode.
WriteNoModeCheck(w, b, up) ==
    LET w1 == IF w.rt = 0 THEN [w EXCEPT !.rt = 1] ELSE w
    IN Buffered(w1, b, up)

Write(w, b, up) ==
    LET w1 == IF w.rt = 0 THEN [w EXCEPT !.rt = 1] ELSE w
    IN IF w1.rt # 1 THEN Result(w1, "conflict", "")
       ELSE Buffered(w1, b, up)

\* WriteItem filling in the host and the port whenever the host is empty.
WriteItemInheritsOnHost(w, i, req, up) ==
    LET w1 == IF w.rt = 0 THEN [w EXCEPT !.rt = 2] ELSE w
        i1 == IF i.Host = ""
              THEN [i EXCEPT !.Host = req.LocalHost, !.Port = req.LocalPort]
              ELSE i
    IN IF w1.rt # 2 THEN Result(w1, "conflict", "")
       ELSE [Buffered(w1, MarshalText(i1), up) EXCEPT !.items = <<i1>>]

WriteItem(w, i, req, up) ==
    LET w1 == IF w.rt = 0 THEN [w EXCEPT !.rt = 2] ELSE w
        i1 == IF i.Host = "" /\ i.Port = 0
              THEN [i EXCEPT !.Host = req.LocalHost, !.Port = req.LocalPort]
              ELSE i
    IN IF w1.rt # 2 THEN Result(w1, "conflict", "")
       ELSE [Buffered(w1, MarshalText(i1), up) EXCEPT !.items = <<i1>>]

\* WriteError writing the text alone, as a document.
WriteErrorAsText(w, err, req, up) ==
    Buffered([w EXCEPT !.rt = IF @ = 0 THEN 1 ELSE @], err, up)

\* WriteError refusing a writer in document mode, as WriteItem does.
WriteErrorConflicts(w, err, req, up) ==
    LET w1 == IF w.rt = 0 THEN [w EXCEPT !.rt = 2] ELSE w
    IN IF w1.rt # 2 THEN Result(w1, "conflict", "")
       ELSE WriteItem(w1, [Type |-> ERROR, Description |-> err, Selector |-> "",
                           Host |-> "error.host", Port |-> 1, Extras |-> <<>>],
                      req, up)

WriteError(w, err, req, up) ==
    LET w1 == IF w.rt = 0 THEN [w EXCEPT !.rt = 2] ELSE w
    IN IF w1.rt # 2 THEN Buffered(w1, err, up)
       ELSE WriteItem(w1, [Type |-> ERROR, Description |-> err, Selector |-> "",
                           Host |-> "error.host", Port |-> 1, Extras |-> <<>>],
                      req, up)

WriteInfo(w, msg, req, up) ==
    LET w1 == IF w.rt = 0 THEN [w EXCEPT !.rt = 2] ELSE w
    IN IF w1.rt # 2 THEN Buffered(w1, msg, up)
       ELSE WriteItem(w1, [Type |-> INFO, Description |-> msg, Selector |-> "",
                           Host |-> "error.host", Port |-> 1, Extras |-> <<>>],
                      req, up)

\* End writing the terminator whenever the mode is not document.
EndTerminatesUndetermined(w, up) ==
    LET w1 == IF w.rt # 1 THEN bufioWrite(w, END \o CRLF, up) ELSE w
        w2 == bufioFlush(w1, up)
    IN IF w.rt # 1 /\ w1.err THEN [w |-> w1, closed |-> FALSE, err |-> "io"]
       ELSE IF w2.err THEN [w |-> w2, closed |-> FALSE, err |-> "io"]
       ELSE [w |-> w2, closed |-> TRUE, err |-> "nil"]

\* response.End: the stream state after it, whether it reached conn.close,
\* and the error it returns.
End(w, up) ==
    LET w1 == IF w.rt = 2 THEN bufioWrite(w, END \o CRLF, up) ELSE w
        w2 == bufioFlush(w1, up)
    IN IF w.rt = 2 /\ w1.err THEN [w |-> w1, closed |-> FALSE, err |-> "io"]
       ELSE IF w2.err THEN [w |-> w2, closed |-> FALSE, err |-> "io"]
       ELSE [w |-> w2, closed |-> TRUE, err |-> "nil"]

(***************************************************************************)
(* Paths (package path, and path/filepath on a system whose separator is   *)
(* '/', where filepath.FromSlash changes nothing).                         *)
(***************************************************************************)
\* The string of n copies of str.
RECURSIVE Repeat(_, _)
Repeat(str, n) ==
    IF n = 0 THEN ""
    ELSE IF n % 2 = 1 THEN str \o Repeat(str, n - 1)
    ELSE Repeat(str \o str, n \div 2)

\* The elements joined by '/'.
RECURSIVE JoinElems(_)
JoinElems(elems) ==
    IF elems = <<>> THEN ""
    ELSE IF Len(elems) = 1 THEN Head(elems)
    ELSE Head(elems) \o "/" \o JoinElems(Tail(elems))

\* The elements path.Clean keeps of the elements left, out being those kept
\* so far: empty and '.' elements go, '..' takes the element before it
\* away, and at the root of a rooted path goes itself.
RECURSIVE cleanLoop(_, _, _)
cleanLoop(elems, out, rooted) ==
    IF elems = <<>> THEN out
    ELSE LET e == Head(elems)
         IN IF e = "" \/ e = "." THEN cleanLoop(Tail(elems), out, rooted)
            ELSE IF e # ".." THEN cleanLoop(Tail(elems), Append(out, e), rooted)
            ELSE IF out # <<>> /\ out[Len(out)] # ".."
                 THEN cleanLoop(Tail(elems), SubSeq(out, 1, Len(out) - 1), rooted)
            ELSE IF rooted THEN cleanLoop(Tail(elems), out, rooted)
            ELSE cleanLoop(Tail(elems), Append(out, ".."), rooted)

\* path.Clean, filepath.Clean
pathClean(p) ==
    LET rooted == HasPrefix(p, "/")
        out == cleanLoop(Split(p, "/"), <<>>, rooted)
    IN IF rooted THEN "/" \o JoinElems(out)
       ELSE IF out = <<>> THEN "."
       ELSE JoinElems(out)

\* path.Join, filepath.Join of two elements
pathJoin(a, b) ==
    IF a = "" /\ b = "" THEN ""
    ELSE IF a = "" THEN pathClean(b)
    ELSE IF b = "" THEN pathClean(a)
    ELSE pathClean(a \o "/" \o b)

\* The elements of a cleaned path.
Elems(p) == IF p = "." THEN <<>> ELSE SelectSeq(Split(p, "/"), LAMBDA e : e # "")

\* The length of the common prefix of two sequences of elements.
RECURSIVE Common(_, _)
Common(a, b) ==
    IF a = <<>> \/ b = <<>> \/ Head(a) # Head(b) THEN 0
    ELSE 1 + Common(Tail(a), Tail(b))

\* filepath.Rel(basepath, targpath): the path and the error ("nil" or
\* "Rel").
filepathRel(basepath, targpath) ==
    LET base == pathClean(basepath)
        targ == pathClean(targpath)
        be == Elems(base)
        te == Elems(targ)
        n == Common(be, te)
        ups == [k \in 1..(Len(be) - n) |-> ".."]
    IN IF targ = base THEN [path |-> ".", err |-> "nil"]
       ELSE IF HasPrefix(base, "/") # HasPrefix(targ, "/")
            THEN [path |-> "", err |-> "Rel"]
       ELSE IF \E k \in (n + 1)..Len(be) : be[k] = ".."
            THEN [path |-> "", err |-> "Rel"]
       ELSE [path |-> JoinElems(ups \o SubSeq(te, n + 1, Len(te))), err |-> "nil"]

\* path.Base of a cleaned path, and the directory it lies in.
pathBase(p) == LET e == Elems(p) IN IF e = <<>> THEN p ELSE e[Len(e)]
pathDir(p) ==
    LET e == Elems(p)
    IN IF Len(e) <= 1 THEN (IF HasPrefix(p, "/") THEN "/" ELSE ".")
       ELSE (IF HasPrefix(p, "/") THEN "/" ELSE "")
                \o JoinElems(SubSeq(e, 1, Len(e) - 1))

\* filepath.Ext: the suffix of the last element from its last dot on.
RECURSIVE filepathExt(_)
filepathExt(p) ==
    LET k == IndexByte(p, ".")
    IN IF IndexByte(p, "/") # 0
       THEN filepathExt(SubSeq(p, IndexByte(p, "/") + 1, Len(p)))
       ELSE IF k = 0 THEN ""
       ELSE IF IndexByte(SubSeq(p, k + 1, Len(p)), ".") # 0
            THEN filepathExt(SubSeq(p, k + 1, Len(p)))
       ELSE SubSeq(p, k, Len(p))

\* The order of bytes, for the bytes of the names of the model, and the
\* order of strings sort.Sort(byName(files)) sorts by.
Alphabet == "-./0123456789ABCDEFGHIJKLMNOPQRSTUVWXYZ_abcdefghijklmnopqrstuvwxyz"

RECURSIVE Less(_, _)
Less(a, b) ==
    IF b = "" THEN FALSE
    ELSE IF a = "" THEN TRUE
    ELSE IF Char(a, 1) = Char(b, 1) THEN Less(Tail(a), Tail(b))
    ELSE IndexByte(Alphabet, Char(a, 1)) < IndexByte(Alphabet, Char(b, 1))

\* The names of a set in ascending order.
RECURSIVE Sorted(_)
Sorted(names) ==
    IF names = {} THEN <<>>
    ELSE LET least == CHOOSE a \in names : \A b \in names \ {a} : Less(a, b)
         IN <<least>> \o Sorted(names \ {least})

(***************************************************************************)
(* The request multiplexer.  A table is a function from the registered     *)
(* patterns to their muxEntry.                                             *)
(***************************************************************************)
EmptyMux == [p \in {} |-> [explicit |-> FALSE, h |-> Nil, pattern |-> ""]]

\* selectorMatch taking every pattern as the name of one path.
selectorMatchExact(pattern, selector) == pattern = selector

\* Does selector match pattern?
selectorMatch(pattern, selector) ==
    IF Len(pattern) = 0 THEN FALSE
    ELSE LET n == Len(pattern)
         IN IF Char(pattern, n) # "/" THEN pattern = selector
            ELSE Len(selector) >= n /\ SubSeq(selector, 1, n) = pattern

\* cleanPath: the canonical path for p, without '.' and '..' elements.
cleanPath(p) ==
    IF p = "" THEN "/"
    ELSE LET p1 == IF Char(p, 1) # "/" THEN "/" \o p ELSE p
             np == pathClean(p1)
         IN IF Char(p1, Len(p1)) = "/" /\ np # "/" THEN np \o "/" ELSE np

\* The orders in which a range over the map m may visit its keys.
Orders(m) ==
    {o \in [1..Cardinality(DOMAIN m) -> DOMAIN m] :
        \A i, j \in DOMAIN o : i # j => o[i] # o[j]}

RECURSIVE matchLoop(_, _, _, _)
matchLoop(m, selector, order, acc) ==
    IF order = <<>> THEN acc
    ELSE LET k == Head(order)
             v == m[k]
         IN IF ~selectorMatch(k, selector)
            THEN matchLoop(m, selector, Tail(order), acc)
            ELSE IF acc.h = Nil \/ Len(k) > acc.n
            THEN matchLoop(m, selector, Tail(order),
                           [n |-> Len(k), h |-> v.h, pattern |-> v.pattern])
            ELSE matchLoop(m, selector, Tail(order), acc)

RECURSIVE matchFirstLoop(_, _, _, _)
matchFirstLoop(m, selector, order, acc) ==
    IF order = <<>> THEN acc
    ELSE LET k == Head(order)
             v == m[k]
         IN IF ~selectorMatch(k, selector)
            THEN matchFirstLoop(m, selector, Tail(order), acc)
            ELSE IF acc.h = Nil
            THEN matchFirstLoop(m, selector, Tail(order),
                                [n |-> Len(k), h |-> v.h, pattern |-> v.pattern])
            ELSE matchFirstLoop(m, selector, Tail(order), acc)

\* match without the comparison of the lengths: the first match wins.
matchFirstWins(m, selector, order) ==
    LET r == matchFirstLoop(m, selector, order, [n |-> 0, h |-> Nil, pattern |-> ""])
    IN [h |-> r.h, pattern |-> r.pattern]

\* ServeMux.match, its range over the map taken in the given order.
match(m, selector, order) ==
    LET r == matchLoop(m, selector, order, [n |-> 0, h |-> Nil, pattern |-> ""])
    IN [h |-> r.h, pattern |-> r.pattern]

\* handler without the fall back to the not-found handler.
handlerNoFallback(m, selector, order) == match(m, selector, order)

\* ServeMux.handler
handler(m, selector, order) ==
    LET r == match(m, selector, order)
    IN IF r.h = Nil THEN [h |-> NotFoundH, pattern |-> ""] ELSE r

\* Handle without the check of the explicit flag: a second registration
\* replaces the first.
HandleOverwrites(m, pattern, h) ==
    IF pattern = "" THEN [m |-> m, panic |-> "gopher: invalid pattern " \o pattern]
    ELSE IF h = Nil THEN [m |-> m, panic |-> "gopher: nil handler"]
    ELSE [m |-> [p \in DOMAIN m \cup {pattern} |->
                    IF p = pattern
                    THEN [explicit |-> TRUE, h |-> h, pattern |-> pattern]
                    ELSE m[p]],
          panic |-> ""]

\* ServeMux.Handle: the table after the call, and the value it panics with
\* ("" when it returns).
Handle(m, pattern, h) ==
    IF pattern = "" THEN [m |-> m, panic |-> "gopher: invalid pattern " \o pattern]
    ELSE IF h = Nil THEN [m |-> m, panic |-> "gopher: nil handler"]
    ELSE IF pattern \in DOMAIN m /\ m[pattern].explicit
    THEN [m |-> m, panic |-> "gopher: multiple registrations for " \o pattern]
    ELSE [m |-> [p \in DOMAIN m \cup {pattern} |->
                    IF p = pattern
                    THEN [explicit |-> TRUE, h |-> h, pattern |-> pattern]
                    ELSE m[p]],
          panic |-> ""]

(***************************************************************************)
(* Request reading.                                                        *)
(***************************************************************************)
\* readRequest handing the line on as it came.
readRequestRaw(r) ==
    [req |-> [Selector |-> r.text, LocalHost |-> "", LocalPort |-> 0],
     err |-> "nil"]

\* readRequest(rwc): the scanner's token becomes the selector; the error of
\* the scanner is not consulted, the error returned is nil.
readRequest(r) ==
    LET s0 == r.text
        s1 == IF s0 = "" THEN "/" ELSE s0
        s2 == IF ~HasPrefix(s1, "/") THEN "/" \o s1 ELSE s1
    IN [req |-> [Selector |-> s2, LocalHost |-> "", LocalPort |-> 0],
        err |-> "nil"]

\* conn.readRequest: the request with the local host and port filled in.
connReadRequest(r) ==
    LET rr == readRequest(r)
    IN IF rr.err # "nil" THEN rr
       ELSE [req |-> [rr.req EXCEPT
                        !.LocalHost = IF Hostname = "" THEN ListenHost ELSE Hostname,
                        !.LocalPort = ListenPort],
             err |-> "nil"]

NoRequest == [Selector |-> "", LocalHost |-> "", LocalPort |-> 0]

(***************************************************************************)
(* The file handler.  A file system fsys is the Dir the handler serves     *)
(* (root) and the files of the machine (disk), a function from the cleaned *)
(* path of a file to its kind ("dir", "file" or "other"), its bytes (data), *)
(* the content type http.DetectContentType finds in them (sniff), and      *)
(* whether the server process may open it (readable).                      *)
(* No file of the disk has a NUL byte in its name.                         *)
(***************************************************************************)
DirEntry == [kind |-> "dir", data |-> "", sniff |-> "", readable |-> TRUE]
FileEntry(data) ==
    [kind |-> "file", data |-> data, sniff |-> "text/plain; charset=utf-8",
     readable |-> TRUE]

\* Bytes GetItemType reads to sniff the content type.
SniffLen == 512

FileExtensions ==
    [e \in {".txt", ".s", ".c", ".py", ".h", ".md", ".go", ".fs"} |-> FILE]
        @@ (".gif" :> "g") @@ [e \in {".jpg", ".jpeg", ".png"} |-> "I"]
        @@ (".html" :> "h")
        @@ [e \in {".ogg", ".mp3", ".wav", ".mod", ".it", ".xm", ".mid", ".vgm"}
                |-> "s"]

MimeTypes ==
    ("text/html" :> "h") @@ ("text/*" :> FILE) @@ ("image/gif" :> "g")
        @@ ("image/*" :> "I") @@ ("audio/*" :> "s")
        @@ [k \in {"application/x-tar", "application/x-gtar", "application/x-xz",
                   "application/x-zip", "application/x-gzip",
                   "application/x-bzip2"} |-> "5"]

\* Orders in which a range over MimeTypes visits the keys matchMimeType
\* can stop at.
MimeOrders ==
    {<<"text/html", "text/*", "image/gif", "image/*", "audio/*",
       "application/x-tar", "application/x-gtar", "application/x-xz",
       "application/x-zip", "application/x-gzip", "application/x-bzip2">>,
     <<"application/x-bzip2", "application/x-gzip", "application/x-zip",
       "application/x-xz", "application/x-gtar", "application/x-tar",
       "audio/*", "image/*", "image/gif", "text/*", "text/html">>}

\* strings.ToLower on the letters of the model's names.
UpperCase == "ABCDEFGHIJKLMNOPQRSTUVWXYZ"
LowerCase == "abcdefghijklmnopqrstuvwxyz"

RECURSIVE ToLower(_)
ToLower(str) ==
    IF str = "" THEN ""
    ELSE LET k == IndexByte(UpperCase, Char(str, 1))
         IN (IF k = 0 THEN Char(str, 1) ELSE Char(LowerCase, k))
                \o ToLower(Tail(str))

matchExtension(name) ==
    LET extension == ToLower(filepathExt(name))
    IN IF extension \in DOMAIN FileExtensions THEN FileExtensions[extension]
       ELSE BINARY

\* filepath.Match for the patterns of MimeTypes: a literal, or a literal
\* followed by a '*', which matches any bytes other than '/'.
filepathMatch(pattern, name) ==
    IF pattern # "" /\ Char(pattern, Len(pattern)) = "*"
    THEN LET lit == SubSeq(pattern, 1, Len(pattern) - 1)
         IN /\ HasPrefix(name, lit)
            /\ IndexByte(SubSeq(name, Len(lit) + 1, Len(name)), "/") = 0
    ELSE pattern = name

RECURSIVE matchMimeType(_, _)
matchMimeType(mimeType, order) ==
    IF order = <<>> THEN BINARY
    ELSE IF filepathMatch(Head(order), mimeType) THEN MimeTypes[Head(order)]
    ELSE matchMimeType(mimeType, Tail(order))

GetItemType(disk, p, order) ==
    IF p \notin DOMAIN disk THEN BINARY
    ELSE IF disk[p].kind = "dir" THEN DIRECTORY
    ELSE IF ~disk[p].readable THEN matchExtension(pathBase(p))
    ELSE IF Len(disk[p].data) < SniffLen THEN matchExtension(pathBase(p))
    ELSE matchMimeType(Split(disk[p].sniff, ";")[1], order)

\* Dir.Open handing the name to the system as it came, joined to the
\* directory.
DirOpenUnchecked(fsys, name) ==
    LET dir == IF fsys.root = "" THEN "." ELSE fsys.root
        p == dir \o "/" \o name
    IN IF p \notin DOMAIN fsys.disk
       THEN [name |-> p, err |-> "open " \o p \o ": no such file or directory"]
       ELSE IF ~fsys.disk[p].readable
       THEN [name |-> p, err |-> "open " \o p \o ": permission denied"]
       ELSE [name |-> p, err |-> "nil"]

\* Dir.Open: the path handed to os.Open (name; none for a rejected name)
\* and the error.
DirOpen(fsys, name) ==
    LET dir == IF fsys.root = "" THEN "." ELSE fsys.root
        p == pathJoin(dir, pathClean("/" \o name))
    IN IF IndexByte(name, NUL) # 0
       THEN [name |-> "", err |-> "gopher: invalid character in file path"]
       ELSE IF p \notin DOMAIN fsys.disk
       THEN [name |-> p, err |-> "open " \o p \o ": no such file or directory"]
       ELSE IF ~fsys.disk[p].readable
       THEN [name |-> p, err |-> "open " \o p \o ": permission denied"]
       ELSE [name |-> p, err |-> "nil"]

\* f.Readdir(-1) sorted by name: the names of the files in directory p.
Readdir(disk, p) ==
    Sorted({pathBase(q) : q \in {q \in DOMAIN disk : q # p /\ pathDir(q) = p}})

\* The writer calls of one handler invocation: the stream state w, the
\* number n of the calls made, the last call op, its argument arg and its
\* error err, and the bytes and the items the calls accepted.
Call(run, op, arg, r) ==
    [w |-> r.w, n |-> run.n + 1, op |-> op, arg |-> arg, err |-> r.err,
     wrote |-> IF r.err = "nil" THEN run.wrote \o r.p ELSE run.wrote,
     sent |-> IF r.err = "nil" THEN run.sent \o r.items ELSE run.sent]

\* The loop of dirList over the names left.
RECURSIVE dirListLoop(_, _, _, _, _, _, _)
dirListLoop(run, req, fullpath, names, fsys, order, up) ==
    IF names = <<>> THEN run
    ELSE LET name == Head(names)
             file == fsys.disk[pathJoin(fullpath, name)]
             pathname == filepathRel(fsys.root, pathJoin(fullpath, name))
             itemtype == IF file.kind = "dir" THEN DIRECTORY
                         ELSE GetItemType(fsys.disk, pathJoin(fullpath, name), order)
             item == [Type |-> itemtype, Description |-> name,
                      Selector |-> pathname.path, Host |-> req.LocalHost,
                      Port |-> req.LocalPort, Extras |-> <<>>]
         IN IF Char(name, 1) = "."
            THEN dirListLoop(run, req, fullpath, Tail(names), fsys, order, up)
            ELSE IF file.kind = "other"
            THEN dirListLoop(run, req, fullpath, Tail(names), fsys, order, up)
            ELSE IF pathname.err # "nil"
            THEN Call(run, "WriteError", "Error reading directory",
                      WriteError(run.w, "Error reading directory", req, up))
            ELSE dirListLoop(Call(run, "WriteItem", item,
                                  WriteItem(run.w, item, req, up)),
                             req, fullpath, Tail(names), fsys, order, up)

\* dirList(w, r, f, fs) for the opened directory of name fullpath
dirList(run, req, fullpath, fsys, order, up) ==
    dirListLoop(run, req, fullpath, Readdir(fsys.disk, fullpath), fsys, order, up)

\* serveContent: io.Copy hands the bytes of the file to w.Write, and makes
\* no call for an empty file.
serveContent(run, data, up) ==
    IF data = "" THEN run ELSE Call(run, "Write", data, Write(run.w, data, up))

\* serveFile without the probe for a gophermap.
serveFileNoGophermap(run, req, fsys, name, order, up) ==
    LET f == DirOpen(fsys, name)
    IN IF f.err # "nil"
       THEN Call(run, "WriteError", f.err, WriteError(run.w, f.err, req, up))
       ELSE IF fsys.disk[f.name].kind = "dir"
       THEN dirList(run, req, f.name, fsys, order, up)
       ELSE serveContent(run, fsys.disk[f.name].data, up)

\* serveFile(w, r, fs, name)
serveFile(run, req, fsys, name, order, up) ==
    LET f == DirOpen(fsys, name)
        trimmed == IF name # "" /\ Char(name, Len(name)) = "/"
                   THEN SubSeq(name, 1, Len(name) - 1) ELSE name
        ff == DirOpen(fsys, trimmed \o "/gophermap")
        served == IF fsys.disk[f.name].kind = "dir" /\ ff.err = "nil"
                  THEN ff.name ELSE f.name
    IN IF f.err # "nil"
       THEN Call(run, "WriteError", f.err, WriteError(run.w, f.err, req, up))
       ELSE IF fsys.disk[served].kind = "dir"
       THEN dirList(run, req, served, fsys, order, up)
       ELSE serveContent(run, fsys.disk[served].data, up)

\* fileHandler.ServeGopher
fileHandlerServeGopher(run, req, fsys, order, up) ==
    LET upath == IF ~HasPrefix(req.Selector, "/") THEN "/" \o req.Selector
                 ELSE req.Selector
    IN serveFile(run, [req EXCEPT !.Selector = upath], fsys, pathClean(upath),
                 order, up)

(***************************************************************************)
(* State.                                                                  *)
(***************************************************************************)
VARIABLES
    mux,      \* the registration table ServeMux.m of DefaultServeMux
    call,     \* the last call made on the router alone, with its result
    srv,      \* "setup": before Serve; "open": in the accept loop;
              \* "closed": Serve has returned and closed the listener
    running,  \* the server process is alive
    pc,       \* where conn.serve of each connection stands
    rd,       \* what the request read of each connection yielded
    req,      \* the Request of each connection
    hnd,      \* the handler the router resolved for each connection
    pat,      \* ... and the pattern it resolved
    resp,     \* the response of each connection: mode, buffer, bytes on the wire
    closed,   \* the transport of each connection is closed
    up,       \* the peer of each connection still takes bytes
    ret,      \* the writer calls made on each connection so far (n), the last
              \* of them (op), its argument (arg) and the error it returned (err)
    wrote,    \* the bytes the writer calls of each connection accepted, in order
    sent,     \* the items the writer calls of each connection accepted, in order
    events,   \* the steps conn.serve has taken for each connection, in order
    ncalls,   \* writer calls made by application handlers so far
    codec,    \* the last call a program made on the item codec, and its results
    cli,      \* the last call a program made on the client, with the network
              \* it met and its results
    fsys,     \* the file system the file handler serves
    mu,       \* ServeMux.mu: the goroutine holding the write lock (writer),
              \* those holding the read lock (readers) and those blocked in
              \* Lock (waiting)
    gs,       \* the goroutines calling the router: where each stands in its
              \* call (pc), the call and its arguments (op, arg, h), the keys
              \* the range of match has still to visit (order), the best
              \* match so far (acc), the result (res, panic), and the number
              \* of tables completed when the call began and ended (from, to),
              \* and whether the call is made by a handler the goroutine
              \* runs (nested)
    hist      \* the tables of the router, one for each registration completed

vars == <<mux, call, srv, running, pc, rd, req, hnd, pat, resp, closed, up,
          ret, wrote, sent, events, ncalls, codec, cli, fsys, mu, gs, hist>>

routerVars == <<mux, call>>
serverVars == <<srv, running>>
connVars ==
    <<pc, rd, req, hnd, pat, resp, closed, up, ret, wrote, sent, events, ncalls>>
clientVars == <<codec, cli>>
fileVars == <<fsys>>
lockVars == <<mu, gs, hist>>

NoCall == [op |-> "none", arg |-> "", h |-> Nil, pattern |-> "", panic |-> ""]
NoFileSystem == [root |-> "", disk |-> <<>>]
NoURL == [Scheme |-> "", Host |-> "", Path |-> "", RawQuery |-> ""]
NoNet == [dial |-> FALSE, write |-> FALSE, reply |-> ""]
NoClientCall ==
    [op |-> "none", u |-> NoURL, item |-> NoItem, lines |-> <<>>, net |-> NoNet,
     err |-> "nil", fetch |-> Fetched("nil", FALSE, "", <<>>, "")]
\* The goroutines that call the router at the same time.
Goroutines == {"g1", "g2", "g3"}
NoMatch == [n |-> 0, h |-> Nil, pattern |-> ""]
NoRouterCall ==
    [pc |-> "idle", op |-> "none", arg |-> "", h |-> Nil, order |-> <<>>,
     acc |-> NoMatch, res |-> [h |-> Nil, pattern |-> ""], panic |-> "",
     from |-> 0, to |-> 0, nested |-> FALSE]
NoCodecCall == [op |-> "none", line |-> "", item |-> NoItem, items |-> <<>>,
                text |-> "", res |-> [item |-> NoItem, err |-> "nil"]]

Init ==
    /\ mux = EmptyMux
    /\ call = NoCall
    /\ srv = "setup"
    /\ running = TRUE
    /\ pc = [c \in Conns |-> "idle"]
    /\ rd = [c \in Conns |-> [kind |-> "none", text |-> ""]]
    /\ req = [c \in Conns |-> NoRequest]
    /\ hnd = [c \in Conns |-> Nil]
    /\ pat = [c \in Conns |-> ""]
    /\ resp = [c \in Conns |-> NewResponse]
    /\ closed = [c \in Conns |-> FALSE]
    /\ up = [c \in Conns |-> TRUE]
    /\ ret = [c \in Conns |-> [n |-> 0, op |-> "none", arg |-> "", err |-> "nil"]]
    /\ wrote = [c \in Conns |-> ""]
    /\ sent = [c \in Conns |-> <<>>]
    /\ events = [c \in Conns |-> <<>>]
    /\ ncalls = 0
    /\ codec = NoCodecCall
    /\ cli = NoClientCall
    /\ fsys = NoFileSystem
    /\ mu = [writer |-> "", readers |-> {}, waiting |-> {}]
    /\ gs = [g \in Goroutines |-> NoRouterCall]
    /\ hist = <<EmptyMux>>

(***************************************************************************)
(* The server: registration, the accept loop, conn.serve.                  *)
(***************************************************************************)
\* The application registers a handler (gopher.Handle, gopher.HandleFunc)
\* before it calls ListenAndServe, each pattern once.
Register(pattern, h) ==
    /\ running /\ srv = "setup"
    /\ pattern \notin DOMAIN mux
    /\ mux' = Handle(mux, pattern, h).m
    /\ UNCHANGED <<clientVars, lockVars, fileVars, call, serverVars, connVars>>

\* Server.ListenAndServe up to the accept loop of Server.Serve.
ListenAndServe ==
    /\ running /\ srv = "setup"
    /\ srv' = "open"
    /\ UNCHANGED <<clientVars, lockVars, fileVars, routerVars, running, connVars>>

\* The accept loop calling c.serve(ctx) itself, without go: it is back at
\* l.Accept() only when every connection it accepted has been served.
AcceptInline(c) ==
    /\ running /\ srv = "open"
    /\ pc[c] = "idle"
    /\ \A d \in Conns : pc[d] \in {"idle", "done"}
    /\ pc' = [pc EXCEPT ![c] = "accepted"]
    /\ events' = [events EXCEPT ![c] = Append(@, "accept")]
    /\ UNCHANGED <<clientVars, lockVars, fileVars, routerVars, serverVars, rd, req, hnd, pat, resp, closed, up,
                   ret, wrote, sent, ncalls>>

\* One turn of the accept loop: l.Accept() returns a connection, newConn,
\* go c.serve(ctx).  The loop is back at l.Accept() when the step ends.
Accept(c) ==
    /\ running /\ srv = "open"
    /\ pc[c] = "idle"
    /\ pc' = [pc EXCEPT ![c] = "accepted"]
    /\ events' = [events EXCEPT ![c] = Append(@, "accept")]
    /\ UNCHANGED <<clientVars, lockVars, fileVars, routerVars, serverVars, rd, req, hnd, pat, resp, closed, up,
                   ret, wrote, sent, ncalls>>

\* l.Accept() fails: Serve returns the error and the deferred l.Close() runs.
AcceptError ==
    /\ running /\ srv = "open"
    /\ srv' = "closed"
    /\ UNCHANGED <<clientVars, lockVars, fileVars, routerVars, running, connVars>>

\* conn.serve from its start to the handler call: c.readRequest, and what
\* serve does with its error.
ReadRequestOf(c, results) ==
    /\ running
    /\ pc[c] = "accepted"
    /\ \E r \in results :
        LET rr == connReadRequest(r)
        IN /\ rd' = [rd EXCEPT ![c] = r]
           /\ events' = [events EXCEPT ![c] = Append(@, "read")]
           /\ IF rr.err = "nil"
              THEN /\ pc' = [pc EXCEPT ![c] = "read"]
                   /\ req' = [req EXCEPT ![c] = rr.req]
                   /\ resp' = [resp EXCEPT ![c] = NewResponse]
              ELSE /\ pc' = [pc EXCEPT ![c] = "done"]
                   /\ req' = req
                   /\ resp' = IF rr.err \in {"EOF", "timeout"} \/ ~up[c]
                              THEN resp
                              ELSE [resp EXCEPT ![c].wire =
                                        @ \o "3\tbad request\terror.host\t0"]
    /\ UNCHANGED <<clientVars, lockVars, fileVars, routerVars, serverVars, hnd, pat, closed, up, ret, wrote, sent, ncalls>>

ReadRequest(c) == ReadRequestOf(c, ReadResults)

\* serverHandler.ServeGopher and ServeMux.ServeGopher up to the call of the
\* resolved handler.
Dispatch(c) ==
    /\ running
    /\ pc[c] = "read"
    /\ \E order \in Orders(mux) :
        LET r == handler(mux, req[c].Selector, order)
        IN /\ hnd' = [hnd EXCEPT ![c] = r.h]
           /\ pat' = [pat EXCEPT ![c] = r.pattern]
    /\ pc' = [pc EXCEPT ![c] = "handling"]
    /\ events' = [events EXCEPT ![c] = Append(@, "dispatch")]
    /\ UNCHANGED <<clientVars, lockVars, fileVars, routerVars, serverVars, rd, req, resp, closed, up, ret, wrote, sent,
                   ncalls>>

\* The effect of one writer call with result r on connection c.
Called(c, op, arg, r) ==
    /\ resp' = [resp EXCEPT ![c] = r.w]
    /\ ret' = [ret EXCEPT ![c] =
                    [n |-> @.n + 1, op |-> op, arg |-> arg, err |-> r.err]]
    /\ wrote' = [wrote EXCEPT ![c] = IF r.err = "nil" THEN @ \o r.p ELSE @]
    /\ sent' = [sent EXCEPT ![c] = IF r.err = "nil" THEN @ \o r.items ELSE @]

InAppHandler(c) ==
    /\ running
    /\ pc[c] = "handling"
    /\ hnd[c] \in AppHandlers
    /\ ncalls < MaxCalls

HandlerWrite(c, b) ==
    /\ InAppHandler(c)
    /\ Called(c, "Write", b, Write(resp[c], b, up[c]))
    /\ ncalls' = ncalls + 1
    /\ UNCHANGED <<clientVars, lockVars, fileVars, routerVars, serverVars, pc, rd, req, hnd, pat, closed, up, events>>

HandlerWriteItem(c, i) ==
    /\ InAppHandler(c)
    /\ Called(c, "WriteItem", i, WriteItem(resp[c], i, req[c], up[c]))
    /\ ncalls' = ncalls + 1
    /\ UNCHANGED <<clientVars, lockVars, fileVars, routerVars, serverVars, pc, rd, req, hnd, pat, closed, up, events>>

HandlerWriteInfo(c, msg) ==
    /\ InAppHandler(c)
    /\ Called(c, "WriteInfo", msg, WriteInfo(resp[c], msg, req[c], up[c]))
    /\ ncalls' = ncalls + 1
    /\ UNCHANGED <<clientVars, lockVars, fileVars, routerVars, serverVars, pc, rd, req, hnd, pat, closed, up, events>>

HandlerWriteError(c, msg) ==
    /\ InAppHandler(c)
    /\ Called(c, "WriteError", msg, WriteError(resp[c], msg, req[c], up[c]))
    /\ ncalls' = ncalls + 1
    /\ UNCHANGED <<clientVars, lockVars, fileVars, routerVars, serverVars, pc, rd, req, hnd, pat, closed, up, events>>

\* An application handler returns.
HandlerReturn(c) ==
    /\ running
    /\ pc[c] = "handling"
    /\ hnd[c] \in AppHandlers
    /\ pc' = [pc EXCEPT ![c] = "returned"]
    /\ events' = [events EXCEPT ![c] = Append(@, "return")]
    /\ UNCHANGED <<clientVars, lockVars, fileVars, routerVars, serverVars, rd, req, hnd, pat, resp, closed, up, ret,
                   wrote, sent, ncalls>>

\* An application handler panics.  conn.serve has no recover and runs in a
\* goroutine of its own, so the panic ends the process; the operating
\* system then closes every socket the process held.
HandlerPanic(c) ==
    /\ running
    /\ pc[c] = "handling"
    /\ hnd[c] \in AppHandlers
    /\ pc' = [pc EXCEPT ![c] = "panicked"]
    /\ events' = [events EXCEPT ![c] = Append(@, "panic")]
    /\ running' = FALSE
    /\ closed' = [d \in Conns |-> TRUE]
    /\ UNCHANGED <<clientVars, lockVars, fileVars, routerVars, srv, rd, req, hnd, pat, resp, up, ret, wrote, sent, ncalls>>

\* The built-in handler NotFound: Error(w, "resource not found"), return.
NotFound(c) ==
    /\ running
    /\ pc[c] = "handling"
    /\ hnd[c] = NotFoundH
    /\ Called(c, "WriteError", "resource not found",
              WriteError(resp[c], "resource not found", req[c], up[c]))
    /\ pc' = [pc EXCEPT ![c] = "returned"]
    /\ events' = [events EXCEPT ![c] = Append(@, "return")]
    /\ UNCHANGED <<clientVars, lockVars, fileVars, routerVars, serverVars, rd, req, hnd, pat, closed, up, ncalls>>

\* conn.serve reading the next request after End on a transport End left
\* open (keep-alive).
FinishKeepAlive(c) ==
    /\ running
    /\ pc[c] = "returned"
    /\ LET r == End(resp[c], up[c])
       IN /\ resp' = [resp EXCEPT ![c] = r.w]
          /\ closed' = [closed EXCEPT ![c] = r.closed]
          /\ ret' = [ret EXCEPT ![c] = [n |-> @.n + 1, op |-> "End", arg |-> "", err |-> r.err]]
          /\ pc' = [pc EXCEPT ![c] = IF r.closed THEN "done" ELSE "accepted"]
    /\ events' = [events EXCEPT ![c] = Append(@, "end")]
    /\ UNCHANGED <<clientVars, lockVars, fileVars, routerVars, serverVars, rd, req, hnd, pat, up, wrote, sent, ncalls>>

\* w.End() at the end of conn.serve, and the return of conn.serve.
Finish(c) ==
    /\ running
    /\ pc[c] = "returned"
    /\ LET r == End(resp[c], up[c])
       IN /\ resp' = [resp EXCEPT ![c] = r.w]
          /\ closed' = [closed EXCEPT ![c] = r.closed]
          /\ ret' = [ret EXCEPT ![c] = [n |-> @.n + 1, op |-> "End", arg |-> "", err |-> r.err]]
    /\ pc' = [pc EXCEPT ![c] = "done"]
    /\ events' = [events EXCEPT ![c] = Append(@, "end")]
    /\ UNCHANGED <<clientVars, lockVars, fileVars, routerVars, serverVars, rd, req, hnd, pat, up, wrote, sent, ncalls>>

\* The client goes away (connection reset): from now on a write to the
\* transport fails.
ClientReset(c) ==
    /\ running
    /\ pc[c] \in {"read", "handling", "returned"}
    /\ up[c]
    /\ up' = [up EXCEPT ![c] = FALSE]
    /\ UNCHANGED <<clientVars, lockVars, fileVars, routerVars, serverVars, pc, rd, req, hnd, pat, resp, closed, ret,
                   wrote, sent, events, ncalls>>

Next ==
    \/ \E p \in AppPatterns, h \in AppHandlers : Register(p, h)
    \/ ListenAndServe
    \/ AcceptError
    \/ \E c \in Conns :
        \/ Accept(c)
        \/ ReadRequest(c)
        \/ Dispatch(c)
        \/ \E b \in Docs : HandlerWrite(c, b)
        \/ \E i \in Items : HandlerWriteItem(c, i)
        \/ \E msg \in Msgs : HandlerWriteInfo(c, msg)
        \/ \E msg \in Msgs : HandlerWriteError(c, msg)
        \/ HandlerReturn(c)
        \/ HandlerPanic(c)
        \/ NotFound(c)
        \/ Finish(c)
        \/ ClientReset(c)

Spec == Init /\ [][Next]_vars

(***************************************************************************)
(* The router on its own: any sequence of Handle and Handler calls.        *)
(***************************************************************************)
MuxHandle(pattern, h) ==
    LET r == Handle(mux, pattern, h)
    IN /\ mux' = r.m
       /\ call' = [op |-> "Handle", arg |-> pattern, h |-> h, pattern |-> "",
                   panic |-> r.panic]
       /\ UNCHANGED <<clientVars, lockVars, fileVars, serverVars, connVars>>

MuxHandler(selector) ==
    /\ \E order \in Orders(mux) :
        LET r == handler(mux, selector, order)
        IN call' = [op |-> "Handler", arg |-> selector, h |-> r.h,
                    pattern |-> r.pattern, panic |-> ""]
    /\ UNCHANGED <<clientVars, lockVars, fileVars, mux, serverVars, connVars>>

NextMux ==
    \/ \E p \in Patterns, h \in AppHandlers \cup {Nil} : MuxHandle(p, h)
    \/ \E s \in Selectors \cup UncleanSelectors : MuxHandler(s)

SpecMux == Init /\ [][NextMux]_vars

(***************************************************************************)
(* The router called by several goroutines at once.  Handle and handler    *)
(* run as the steps of their code between taking and releasing mux.mu; the *)
(* map assignment of Handle is not one step for a goroutine that reads the *)
(* map without the lock: the key is there before its entry is filled in.   *)
(***************************************************************************)
LockPatterns == {"/", "/hello"}
LockSelectors == {"/hello", "/other"}

\* sync.RWMutex: RLock returns when no goroutine holds the write lock and
\* none is blocked in Lock.
CanRLockAlways(m) == TRUE
CanRLock(m) == m.writer = "" /\ m.waiting = {}
\* ... and Lock when no goroutine holds the lock in either way.
CanLock(m) == m.writer = "" /\ m.readers = {}

\* A goroutine calls mux.Handle(pattern, h), each goroutine one call.
CallHandle(g, pattern, h) ==
    /\ gs[g].pc = "idle"
    /\ gs' = [gs EXCEPT ![g] = [NoRouterCall EXCEPT !.pc = "Lock", !.op = "Handle",
                                                    !.arg = pattern, !.h = h,
                                                    !.from = Len(hist)]]
    /\ UNCHANGED <<clientVars, fileVars, routerVars, serverVars, connVars, mu, hist>>

\* mux.mu.Lock() begins: from now on no new reader gets the lock.
LockWait(g) ==
    /\ gs[g].pc = "Lock"
    /\ mu' = [mu EXCEPT !.waiting = @ \cup {g}]
    /\ gs' = [gs EXCEPT ![g].pc = "Locking"]
    /\ UNCHANGED <<clientVars, fileVars, routerVars, serverVars, connVars, hist>>

\* mux.mu.Lock() returns.
LockAcquire(g) ==
    /\ gs[g].pc = "Locking"
    /\ CanLock(mu)
    /\ mu' = [mu EXCEPT !.writer = g, !.waiting = @ \ {g}]
    /\ gs' = [gs EXCEPT ![g].pc = "check"]
    /\ UNCHANGED <<clientVars, fileVars, routerVars, serverVars, connVars, hist>>

\* The three checks of Handle; a panic leaves the deferred Unlock to run.
HandleCheck(g) ==
    /\ gs[g].pc = "check"
    /\ LET pattern == gs[g].arg
           panic == IF pattern = "" THEN "gopher: invalid pattern " \o pattern
                    ELSE IF gs[g].h = Nil THEN "gopher: nil handler"
                    ELSE IF pattern \in DOMAIN mux /\ mux[pattern].explicit
                    THEN "gopher: multiple registrations for " \o pattern
                    ELSE ""
       IN gs' = [gs EXCEPT ![g].panic = panic,
                           ![g].pc = IF panic = "" THEN "store" ELSE "unwind"]
    /\ UNCHANGED <<clientVars, fileVars, routerVars, serverVars, connVars, mu, hist>>

\* mux.m[pattern] = muxEntry{...}, first half: the key enters the map.
HandleStore(g) ==
    /\ gs[g].pc = "store"
    /\ mux' = [p \in DOMAIN mux \cup {gs[g].arg} |->
                    IF p \in DOMAIN mux THEN mux[p]
                    ELSE [explicit |-> FALSE, h |-> Nil, pattern |-> ""]]
    /\ gs' = [gs EXCEPT ![g].pc = "fill"]
    /\ UNCHANGED <<clientVars, fileVars, call, serverVars, connVars, mu, hist>>

\* ... second half: the entry of the key is written.
HandleFill(g) ==
    /\ gs[g].pc = "fill"
    /\ mux' = [mux EXCEPT ![gs[g].arg] =
                    [explicit |-> TRUE, h |-> gs[g].h, pattern |-> gs[g].arg]]
    /\ hist' = Append(hist, mux')
    /\ gs' = [gs EXCEPT ![g].pc = "unlock"]
    /\ UNCHANGED <<clientVars, fileVars, call, serverVars, connVars, mu>>

\* The deferred mux.mu.Unlock() of Handle, and its return or panic.
HandleUnlock(g) ==
    /\ gs[g].pc \in {"unlock", "unwind"}
    /\ mu' = [mu EXCEPT !.writer = ""]
    /\ gs' = [gs EXCEPT ![g].pc = IF gs[g].pc = "unlock" THEN "done" ELSE "panicked",
                        ![g].to = Len(hist)]
    /\ UNCHANGED <<clientVars, fileVars, routerVars, serverVars, connVars, hist>>

\* A goroutine calls mux.handler(selector) (a dispatch).
CallHandler(g, selector) ==
    /\ gs[g].pc = "idle"
    /\ gs' = [gs EXCEPT ![g] = [NoRouterCall EXCEPT !.pc = "RLock", !.op = "Handler",
                                                    !.arg = selector,
                                                    !.from = Len(hist)]]
    /\ UNCHANGED <<clientVars, fileVars, routerVars, serverVars, connVars, mu, hist>>

\* mux.mu.RLock() returns, and match begins its range over the map.
RLock(g) ==
    /\ gs[g].pc = "RLock"
    /\ CanRLock(mu)
    /\ mu' = [mu EXCEPT !.readers = @ \cup {g}]
    /\ \E order \in Orders(mux) :
            gs' = [gs EXCEPT ![g].pc = "match", ![g].order = order]
    /\ UNCHANGED <<clientVars, fileVars, routerVars, serverVars, connVars, hist>>

\* One turn of the loop of match.
MatchStep(g) ==
    /\ gs[g].pc = "match"
    /\ gs[g].order # <<>>
    /\ gs' = [gs EXCEPT ![g].acc = matchLoop(mux, gs[g].arg, <<Head(gs[g].order)>>,
                                             gs[g].acc),
                        ![g].order = Tail(@)]
    /\ UNCHANGED <<clientVars, fileVars, routerVars, serverVars, connVars, mu, hist>>

\* match returns, and handler falls back to the not-found handler.
MatchEnd(g) ==
    /\ gs[g].pc = "match"
    /\ gs[g].order = <<>>
    /\ gs' = [gs EXCEPT ![g].pc = "RUnlock",
                        ![g].res = IF gs[g].acc.h = Nil
                                   THEN [h |-> NotFoundH, pattern |-> ""]
                                   ELSE [h |-> gs[g].acc.h,
                                         pattern |-> gs[g].acc.pattern]]
    /\ UNCHANGED <<clientVars, fileVars, routerVars, serverVars, connVars, mu, hist>>

\* handler returning with the read lock still held.
RUnlockKept(g) ==
    /\ gs[g].pc = "RUnlock"
    /\ gs' = [gs EXCEPT ![g].pc = "done", ![g].to = Len(hist)]
    /\ UNCHANGED <<clientVars, fileVars, routerVars, serverVars, connVars, hist, mu>>

\* The deferred mux.mu.RUnlock() of handler, and its return.
RUnlock(g) ==
    /\ gs[g].pc = "RUnlock"
    /\ mu' = [mu EXCEPT !.readers = @ \ {g}]
    /\ gs' = [gs EXCEPT ![g].pc = "done", ![g].to = Len(hist)]
    /\ UNCHANGED <<clientVars, fileVars, routerVars, serverVars, connVars, hist>>

NextLock ==
    \E g \in Goroutines :
        \/ \E p \in LockPatterns, h \in AppHandlers : CallHandle(g, p, h)
        \/ LockWait(g)
        \/ LockAcquire(g)
        \/ HandleCheck(g)
        \/ HandleStore(g)
        \/ HandleFill(g)
        \/ HandleUnlock(g)
        \/ \E s \in LockSelectors : CallHandler(g, s)
        \/ RLock(g)
        \/ MatchStep(g)
        \/ MatchEnd(g)
        \/ RUnlock(g)

SpecLock == Init /\ [][NextLock]_vars

(***************************************************************************)
(* ServeMux.ServeGopher called by several goroutines at once: the handler  *)
(* is resolved under the read lock, as above, and then invoked.  A handler *)
(* of the application is arbitrary code: it may return, register a pattern *)
(* on the router it was resolved by and then return, or never return.      *)
(***************************************************************************)
ServePatterns == {"/", "/hello"}
ServeSelectors == {"/hello"}
ServeHandlers == {"hello"}

\* A goroutine calls mux.ServeGopher(w, r), each goroutine one call.
CallServeGopher(g, selector) ==
    /\ gs[g].pc = "idle"
    /\ gs' = [gs EXCEPT ![g] = [NoRouterCall EXCEPT !.pc = "RLock",
                                                    !.op = "ServeGopher",
                                                    !.arg = selector,
                                                    !.from = Len(hist)]]
    /\ UNCHANGED <<clientVars, fileVars, routerVars, serverVars, connVars, mu, hist>>

\* mux.Handler has returned: h.ServeGopher(w, r) is called.
Invoke(g) ==
    /\ gs[g].pc = "done" /\ gs[g].op = "ServeGopher"
    /\ gs' = [gs EXCEPT ![g].pc = "serving"]
    /\ UNCHANGED <<clientVars, fileVars, routerVars, serverVars, connVars, mu, hist>>

\* The handler calls mux.Handle(pattern, h) on the router.
HandlerRegisters(g, pattern, h) ==
    /\ gs[g].pc = "serving" /\ gs[g].res.h \in AppHandlers
    /\ gs' = [gs EXCEPT ![g] = [NoRouterCall EXCEPT !.pc = "Lock", !.op = "Handle",
                                                    !.arg = pattern, !.h = h,
                                                    !.from = Len(hist),
                                                    !.res = gs[g].res,
                                                    !.nested = TRUE]]
    /\ UNCHANGED <<clientVars, fileVars, routerVars, serverVars, connVars, mu, hist>>

\* The handler returns, at once or after the Handle it called returned.
HandlerReturns(g) ==
    /\ \/ gs[g].pc = "serving"
       \/ gs[g].pc = "done" /\ gs[g].nested
    /\ gs' = [gs EXCEPT ![g].pc = "returned"]
    /\ UNCHANGED <<clientVars, fileVars, routerVars, serverVars, connVars, mu, hist>>

\* The handler waits for something that never comes.
HandlerBlocks(g) ==
    /\ gs[g].pc = "serving" /\ gs[g].res.h \in AppHandlers
    /\ gs' = [gs EXCEPT ![g].pc = "blocked"]
    /\ UNCHANGED <<clientVars, fileVars, routerVars, serverVars, connVars, mu, hist>>

\* The steps a goroutine takes by itself once it has begun a call.
Step(g) ==
    \/ LockWait(g)
    \/ LockAcquire(g)
    \/ HandleCheck(g)
    \/ HandleStore(g)
    \/ HandleFill(g)
    \/ HandleUnlock(g)
    \/ RLock(g)
    \/ MatchStep(g)
    \/ MatchEnd(g)
    \/ RUnlock(g)
    \/ Invoke(g)
    \/ \E p \in ServePatterns, h \in ServeHandlers : HandlerRegisters(g, p, h)
    \/ HandlerReturns(g)

NextServe ==
    \E g \in Goroutines :
        \/ \E p \in ServePatterns, h \in ServeHandlers : CallHandle(g, p, h)
        \/ \E s \in ServeSelectors : CallServeGopher(g, s)
        \/ Step(g)
        \/ HandlerBlocks(g)

\* The scheduler runs every goroutine that can take a step, and the mutex
\* wakes a goroutine blocked in it when it can have the lock.
SpecServe ==
    Init /\ [][NextServe]_vars /\ \A g \in Goroutines : WF_vars(Step(g))

(***************************************************************************)
(* The writer under one connection: an application handler passing items   *)
(* with and without a host and a port, and messages with and without a     *)
(* TAB, to the ResponseWriter.                                             *)
(***************************************************************************)
WriterConns == {"c1"}
WriterItems ==
    {[Type |-> FILE, Description |-> "foo", Selector |-> "/foo",
      Host |-> h, Port |-> p, Extras |-> <<>>] :
        h \in {"", "example.org"}, p \in {0, 70}}
WriterMsgs == {"Hello World!", "no\tsuch"}

NextWriter ==
    \/ \E p \in AppPatterns, h \in AppHandlers : Register(p, h)
    \/ ListenAndServe
    \/ \E c \in WriterConns :
        \/ Accept(c)
        \/ ReadRequest(c)
        \/ Dispatch(c)
        \/ \E b \in Docs : HandlerWrite(c, b)
        \/ \E i \in WriterItems : HandlerWriteItem(c, i)
        \/ \E msg \in WriterMsgs : HandlerWriteInfo(c, msg)
        \/ \E msg \in WriterMsgs : HandlerWriteError(c, msg)
        \/ HandlerReturn(c)
        \/ NotFound(c)
        \/ Finish(c)
        \/ ClientReset(c)

SpecWriter == Init /\ [][NextWriter]_vars

(***************************************************************************)
(* The server of an application that may register the root pattern, a      *)
(* path and a subtree, and clients that send any line, or none.            *)
(***************************************************************************)
RootPatterns == {"/", "/hello", "/docs/"}
RootReadResults ==
    {[kind |-> "line", text |-> s] :
        s \in {"", "/", "hello", "/hello", "/hello/", "other", "/docs/a", "docs",
               "..", "\t/", " ", "/hello" \o NUL}}
        \cup {[kind |-> k, text |-> ""] : k \in {"eof", "timeout", "error"}}

ReadRootRequest(c) == ReadRequestOf(c, RootReadResults)

NextRoot ==
    \/ \E p \in RootPatterns, h \in AppHandlers : Register(p, h)
    \/ ListenAndServe
    \/ \E c \in Conns :
        \/ Accept(c)
        \/ ReadRootRequest(c)
        \/ Dispatch(c)
        \/ HandlerReturn(c)
        \/ NotFound(c)
        \/ Finish(c)

SpecRoot == Init /\ [][NextRoot]_vars

(***************************************************************************)
(* The server with the file handler registered at "/".                     *)
(***************************************************************************)
\* The handler value FileServer(root) returns.
FileServerH == "FileServer"

\* The files under a served directory, by their path in it: the one file of
\* the test data, and a directory with a hidden file, a subdirectory, an
\* image and a file that is neither regular nor a directory.
Single == "hello.txt" :> FileEntry("Hello\n")
Mixed ==
    ("hello.txt" :> FileEntry("Hello\n")) @@ (".hidden" :> FileEntry("x"))
        @@ ("docs" :> DirEntry) @@ ("docs/a.md" :> FileEntry("# a\n"))
        @@ ("logo.png" :> [kind |-> "file", data |-> "PNG", sniff |-> "image/png",
                           readable |-> TRUE])
        @@ ("fifo" :> [kind |-> "other", data |-> "", sniff |-> "",
                       readable |-> TRUE])
\* Files for the type detector: files of SniffLen bytes, whose content type
\* is sniffed, short files, and a file the server may not open.
Typed ==
    ("big.txt" :> [kind |-> "file", data |-> Repeat("#", SniffLen),
                   sniff |-> "application/octet-stream", readable |-> TRUE])
        @@ ("blob" :> [kind |-> "file", data |-> Repeat("#", SniffLen),
                       sniff |-> "application/octet-stream", readable |-> TRUE])
        @@ ("notes" :> [kind |-> "file", data |-> Repeat("a", SniffLen),
                        sniff |-> "text/plain; charset=utf-8", readable |-> TRUE])
        @@ ("page" :> [kind |-> "file", data |-> Repeat("<", SniffLen),
                       sniff |-> "text/html; charset=utf-8", readable |-> TRUE])
        @@ ("anim" :> [kind |-> "file", data |-> Repeat("G", SniffLen),
                       sniff |-> "image/gif", readable |-> TRUE])
        @@ ("song.bin" :> [kind |-> "file", data |-> Repeat("I", SniffLen),
                           sniff |-> "audio/mpeg", readable |-> TRUE])
        @@ ("locked.png" :> [kind |-> "file", data |-> Repeat("P", SniffLen),
                             sniff |-> "image/png", readable |-> FALSE])
        @@ ("PHOTO.JPG" :> [kind |-> "file", data |-> "JFIF",
                            sniff |-> "image/jpeg", readable |-> TRUE])
        @@ ("README" :> FileEntry("read me\n"))
        @@ ("docs" :> DirEntry)
\* Directories with a gophermap: docs holds one the server can open, whose
\* bytes are not those of a menu the server writes, and pub one it cannot.
Mapped ==
    ("hello.txt" :> FileEntry("Hello\n"))
        @@ ("docs" :> DirEntry) @@ ("docs/a.md" :> FileEntry("# a\n"))
        @@ ("docs/gophermap" :> FileEntry("iMap\n.\r\n1a\ta.md"))
        @@ ("pub" :> DirEntry) @@ ("pub/b.txt" :> FileEntry("b\n"))
        @@ ("pub/gophermap" :> [kind |-> "file", data |-> "iPub\r\n",
                                sniff |-> "text/plain; charset=utf-8",
                                readable |-> FALSE])
Roots == {"./testdata", "testdata", "/srv/gopher", ""}

\* The disk that holds the given files under the directory root names.
DiskOf(root, files) ==
    LET base == pathClean(IF root = "" THEN "." ELSE root)
        at(n) == pathJoin(base, n)
    IN [p \in {base} \cup {at(n) : n \in DOMAIN files} |->
            IF p = base THEN DirEntry
            ELSE files[CHOOSE n \in DOMAIN files : at(n) = p]]

\* Request lines the clients of the file server send.
FileReadResults ==
    {[kind |-> "line", text |-> t] :
        t \in {"", "/", "/hello.txt", "hello.txt", "/docs", "docs/", "/pub", "/nofile",
               "/docs/../hello.txt", "/pub/gophermap", "/..//../etc/passwd",
               "/hello.txt" \o NUL}}

\* gopher.Handle("/", gopher.FileServer(gopher.Dir(root))) before the
\* server listens.
RegisterFileServer(root, files) ==
    /\ running /\ srv = "setup"
    /\ "/" \notin DOMAIN mux
    /\ mux' = Handle(mux, "/", FileServerH).m
    /\ fsys' = [root |-> root, disk |-> DiskOf(root, files)]
    /\ UNCHANGED <<clientVars, lockVars, call, serverVars, connVars>>

ReadFileRequest(c) == ReadRequestOf(c, FileReadResults)

\* The file handler runs: fileHandler.ServeGopher from its call to its
\* return.
FileServe(c) ==
    /\ running
    /\ pc[c] = "handling"
    /\ hnd[c] = FileServerH
    /\ \E order \in MimeOrders :
        \E run \in {fileHandlerServeGopher(
                        [w |-> resp[c], n |-> ret[c].n, op |-> ret[c].op,
                         arg |-> ret[c].arg, err |-> ret[c].err,
                         wrote |-> wrote[c], sent |-> sent[c]],
                        req[c], fsys, order, up[c])} :
           /\ resp' = [resp EXCEPT ![c] = run.w]
           /\ ret' = [ret EXCEPT ![c] = [n |-> run.n, op |-> run.op,
                                         arg |-> run.arg, err |-> run.err]]
           /\ wrote' = [wrote EXCEPT ![c] = run.wrote]
           /\ sent' = [sent EXCEPT ![c] = run.sent]
    /\ pc' = [pc EXCEPT ![c] = "returned"]
    /\ events' = [events EXCEPT ![c] = Append(@, "return")]
    /\ UNCHANGED <<clientVars, lockVars, fileVars, routerVars, serverVars, rd, req, hnd, pat,
                   closed, up, ncalls>>

NextFiles ==
    \/ \E root \in Roots, files \in {Single, Mixed, Typed, Mapped} :
            RegisterFileServer(root, files)
    \/ ListenAndServe
    \/ \E c \in Conns :
        \/ Accept(c)
        \/ ReadFileRequest(c)
        \/ Dispatch(c)
        \/ FileServe(c)
        \/ NotFound(c)
        \/ Finish(c)
        \/ ClientReset(c)

SpecFiles == Init /\ [][NextFiles]_vars

(***************************************************************************)
(* The item codec called on its own, as a program using the package calls  *)
(* it: ParseItem on a line, MarshalText on an item.                        *)
(***************************************************************************)
\* Lines handed to ParseItem: bytes before the type, field 0, the fields
\* after it, and the end of the line.
LineStarts == {"", "\r\n"}
LineHeads == {"", "0", "0foo", "1", "ifoo", "7q"}
LineTails ==
    {"", "\t", "\t/foo", "\t/foo\tlocalhost", "\t/foo\tlocalhost\t70",
     "\t\th\t", "\t\th\tabc", "\t\th\t7a", "\t\th\t-1", "\t\th\t+7",
     "\t\th\t2147483648", "\t\th\t99999999999999999999",
     "\t/s\th\t70\tx\ty", "\t/s\th\t70\t", "\t/s\th\tabc\tx"}
LineEnds == {"", "\r\n", "\n", "\r"}
Lines ==
    {a \o b \o c \o d :
        a \in LineStarts, b \in LineHeads, c \in LineTails, d \in LineEnds}

\* Items handed to MarshalText: a type of the enumeration, and text fields
\* without TAB, CR and LF.
WellFormedItems ==
    [Type : ItemTypes, Description : {"", "foo", "Hello World!"},
     Selector : {"", "/foo"}, Host : {"", "localhost"},
     Port : {0, 70, -1, MaxInt, MinInt},
     Extras : {<<>>, <<"x">>, <<"", "y">>, <<"+">>, <<"">>}]

\* The Items of the directories handed to ToText, in their order.
DirItems ==
    {[Type |-> FILE, Description |-> "foo", Selector |-> "/foo",
      Host |-> "localhost", Port |-> 70, Extras |-> <<>>],
     [Type |-> DIRECTORY, Description |-> "", Selector |-> "", Host |-> "",
      Port |-> 0, Extras |-> <<"x", "y">>],
     [Type |-> INFO, Description |-> "Hello World!", Selector |-> "",
      Host |-> "error.host", Port |-> 1, Extras |-> <<>>]}
Directories == UNION {[1..n -> DirItems] : n \in 0..MaxItems}

\* item, err := ParseItem(line).  The codec keeps no state between calls,
\* so a run makes one call.
CallParseItem(line) ==
    /\ codec.op = "none"
    /\ codec' = [NoCodecCall EXCEPT !.op = "ParseItem", !.line = line,
                                    !.res = ParseItem(line)]
    /\ UNCHANGED <<lockVars, fileVars, routerVars, serverVars, connVars, cli>>

\* text, _ := item.MarshalText(); back, err := ParseItem(string(text))
CallMarshalText(item) ==
    /\ codec.op = "none"
    /\ codec' = [NoCodecCall EXCEPT !.op = "MarshalText", !.item = item,
                                    !.text = MarshalText(item),
                                    !.res = ParseItem(MarshalText(item))]
    /\ UNCHANGED <<lockVars, fileVars, routerVars, serverVars, connVars, cli>>

\* text, _ := (&Directory{Items: items}).ToText()
CallToText(items) ==
    /\ codec.op = "none"
    /\ codec' = [NoCodecCall EXCEPT !.op = "ToText", !.items = items,
                                    !.text = ToText(items)]
    /\ UNCHANGED <<lockVars, fileVars, routerVars, serverVars, connVars, cli>>

NextCodec ==
    \/ codec.op = "none" /\ \E line \in Lines : CallParseItem(line)
    \/ codec.op = "none" /\ \E item \in WellFormedItems : CallMarshalText(item)
    \/ codec.op = "none" /\ \E items \in Directories : CallToText(items)

SpecCodec == Init /\ [][NextCodec]_vars

(***************************************************************************)
(* The client called on its own against a peer that sends any reply.       *)
(***************************************************************************)
\* Lines a reply holds at most.
MaxLines == 3

\* The texts of the lines of a reply: well-formed items, a blank line, the
\* terminator, lines the codec rejects, and a line that starts with '.'.
ReplyTexts ==
    {"iHello World!\t\terror.host\t1", "0foo\t/foo\tlocalhost\t70", "", ".",
     "\tbad", "1x\t\th\tabc", ".."}
ReplyLines == UNION {[1..n -> ReplyTexts] : n \in 0..MaxLines}

\* The bytes of a reply of the given lines, each ended by eol; cut tells
\* that the stream ends before the end of the last line.
RECURSIVE Join(_, _, _)
Join(lines, eol, cut) ==
    IF lines = <<>> THEN ""
    ELSE IF Len(lines) = 1 /\ cut THEN Head(lines)
    ELSE Head(lines) \o eol \o Join(Tail(lines), eol, cut)

\* The items fetched, and the URLs of Get by their parsed parts.
FetchItems ==
    {[Type |-> t, Description |-> "", Selector |-> sel, Host |-> "localhost",
      Port |-> 7000, Extras |-> <<>>] :
        t \in {FILE, DIRECTORY, INDEXSEARCH, BINARY, INFO}, sel \in {"", "/hello"}}
URLs ==
    [Scheme : {"gopher", "http"},
     Host : {"localhost:7000", "localhost", "localhost:x", "a:b:c"},
     Path : {"", "/", "/1", "/0", "/1a", "/0a", "/1hello", "/0foo.txt", "/7find"},
     RawQuery : {"", "q"}]
\* The networks on which a fetch fails, and those a Get meets.
FailNets ==
    {[dial |-> FALSE, write |-> FALSE, reply |-> ""],
     [dial |-> TRUE, write |-> FALSE, reply |-> ""]}
GetNets ==
    FailNets \cup
        {[dial |-> TRUE, write |-> TRUE,
          reply |-> "iHello World!\t\terror.host\t1\r\n.\r\n"]}

\* The network of a fetch whose peer sends the given lines.
Reply(lines, eol, cut) ==
    [dial |-> TRUE, write |-> TRUE, reply |-> Join(lines, eol, cut)]

\* res, err := Get(uri).  The client keeps no state between calls, so a
\* run makes one call.
ClientGet(u, net) ==
    /\ cli.op = "none"
    /\ LET r == Get(u, net)
       IN cli' = [op |-> "Get", u |-> u, item |-> r.item, lines |-> <<>>,
                  net |-> net, err |-> r.err, fetch |-> r.fetch]
    /\ UNCHANGED <<lockVars, fileVars, routerVars, serverVars, connVars, codec>>

\* The effect of a fetch for item i with result r on a network net whose
\* reply, when there is one, holds the given lines.
Fetch(op, i, lines, net, r) ==
    /\ cli.op = "none"
    /\ cli' = [op |-> op, u |-> NoURL, item |-> i, lines |-> lines, net |-> net,
               err |-> r.err, fetch |-> r]
    /\ UNCHANGED <<lockVars, fileVars, routerVars, serverVars, connVars, codec>>

\* body, err := i.FetchFile()
ClientFetchFile(i, net) == Fetch("FetchFile", i, <<>>, net, FetchFile(i, net))

\* dir, err := i.FetchDirectory() where it reads no reply: the item is not
\* directory-like, or the network fails
ClientFetchDirectoryNoReply(i, net) ==
    /\ isDirectoryLike(i) => net \in FailNets
    /\ Fetch("FetchDirectory", i, <<>>, net, FetchDirectory(i, net))

\* dir, err := i.FetchDirectory() where the peer replies
ClientFetchDirectory(i, lines, eol, cut) ==
    /\ isDirectoryLike(i)
    /\ i.Selector = "/hello"
    /\ Fetch("FetchDirectory", i, lines, Reply(lines, eol, cut),
             FetchDirectory(i, Reply(lines, eol, cut)))

NextClient ==
    \/ cli.op = "none" /\ \E u \in URLs, net \in GetNets : ClientGet(u, net)
    \/ cli.op = "none" /\ \E i \in FetchItems, net \in GetNets :
            ClientFetchFile(i, net)
    \/ cli.op = "none" /\ \E i \in FetchItems, net \in GetNets :
            ClientFetchDirectoryNoReply(i, net)
    \/ cli.op = "none" /\ \E i \in FetchItems, lines \in ReplyLines,
                             eol \in {CRLF, "\n"}, cut \in BOOLEAN :
            ClientFetchDirectory(i, lines, eol, cut)

SpecClient == Init /\ [][NextClient]_vars

(***************************************************************************)
(* Properties.                                                             *)
(***************************************************************************)
IsPrefix(s, t) == Len(s) <= Len(t) /\ SubSeq(t, 1, Len(s)) = s

\* A pattern matches a selector: they are equal, or the pattern ends in
\* '/' and is a prefix of the selector.
Matches(pattern, selector) ==
    \/ pattern = selector
    \/ /\ Len(pattern) > 0
       /\ Char(pattern, Len(pattern)) = "/"
       /\ IsPrefix(pattern, selector)

\* Connection c makes a writer call (End included) in this step.
WriterCall(c) == ret'[c].n = ret[c].n + 1

\* C1: the mode of a writer is set by its first writing call (Write sets
\* document, WriteItem, WriteInfo and WriteError set menu) and never changes
\* afterwards; every Write on a writer in menu mode and every WriteItem on a
\* writer in document mode fails with the mode-conflict error and writes
\* nothing.
C1_ModeExclusive ==
    [][\A c \in Conns :
        /\ resp[c].rt # 0 => resp'[c].rt = resp[c].rt
        /\ WriterCall(c) =>
            /\ resp[c].rt = 0 =>
                resp'[c].rt = CASE ret'[c].op = "Write" -> 1
                                [] ret'[c].op = "End" -> 0
                                [] OTHER -> 2
            /\ resp[c].rt = 2 /\ ret'[c].op = "Write" =>
                ret'[c].err = "conflict" /\ resp'[c] = resp[c]
            /\ resp[c].rt = 1 /\ ret'[c].op = "WriteItem" =>
                ret'[c].err = "conflict" /\ resp'[c] = resp[c]]_vars

\* A writer put in menu mode by WriteInfo and extended by WriteItem, on
\* which the Write that followed failed with the mode conflict.
C1_Witness ==
    \E c \in Conns :
        /\ resp[c].rt = 2
        /\ ret[c].n = 3
        /\ ret[c].op = "Write" /\ ret[c].err = "conflict"
        /\ wrote[c] = MarshalText([Type |-> INFO, Description |-> "Hello World!",
                                   Selector |-> "", Host |-> "error.host",
                                   Port |-> 1, Extras |-> <<>>])
                        \o "0foo\t/foo\tlocalhost\t7000\r\n"

C3_CleanupOnEveryExit ==
    \A c \in Conns : pc[c] \in {"done", "panicked"} => closed[c]

\* C4: after a handler has faulted the server process is still running.
C4_FaultIsolated ==
    \A c \in Conns : pc[c] = "panicked" => running

\* C5: on a connection whose request read hit EOF or a timeout before any
\* data, no handler is invoked, no byte is written, and the transport is
\* closed when conn.serve has ended.
C5_SilentDisconnect ==
    \A c \in Conns :
        rd[c].kind \in {"eof", "timeout"} =>
            /\ pc[c] \notin {"handling", "returned", "panicked"}
            /\ resp[c].wire = ""
            /\ pc[c] = "done" => closed[c]

\* The registered patterns that match a selector.
Matching(selector) == {p \in DOMAIN mux : Matches(p, selector)}

\* C6: whatever order the table is traversed in, Handler resolves a selector
\* to the longest registered pattern that matches it and to the handler
\* registered for that pattern (to the not-found handler when none
\* matches); with '/' and '/images/' registered, '/images/thumb.png'
\* resolves to '/images/' and '/other' to '/'.
C6_LongestMatch ==
    call.op = "Handler" =>
        /\ IF Matching(call.arg) = {}
           THEN call.h = NotFoundH /\ call.pattern = ""
           ELSE /\ call.pattern \in Matching(call.arg)
                /\ \A q \in Matching(call.arg) : Len(q) <= Len(call.pattern)
                /\ call.h = mux[call.pattern].h
        /\ DOMAIN mux = {"/", "/images/"} =>
            /\ call.arg = "/images/thumb.png" => call.pattern = "/images/"
            /\ call.arg = "/other" => call.pattern = "/"

\* Three patterns match the selector and the longest one is resolved, its
\* handler being another than the handler of the shorter ones.
C6_Witness ==
    /\ call.op = "Handler" /\ call.arg = "/images/"
    /\ DOMAIN mux = {"/", "/images", "/images/", "/hello"}
    /\ call.pattern = "/images/" /\ call.h = "files"
    /\ mux["/"].h = "hello"

\* C7: a Handle call with an empty pattern, a nil handler or a pattern that
\* is already registered panics and leaves the table as it was; any other
\* Handle call returns and adds the binding of its pattern to its handler,
\* leaving every other binding as it was.  So a binding never changes once
\* made.
C7_HandleOnce ==
    [][(call'.op = "Handle" /\ (call' # call \/ mux' # mux)) =>
        IF call'.arg = "" \/ call'.h = Nil \/ call'.arg \in DOMAIN mux
        THEN call'.panic # "" /\ mux' = mux
        ELSE /\ call'.panic = ""
             /\ DOMAIN mux' = DOMAIN mux \cup {call'.arg}
             /\ mux'[call'.arg].h = call'.h
             /\ \A q \in DOMAIN mux : mux'[q] = mux[q]]_vars

\* A second registration of a pattern, with another handler, has panicked
\* and the first handler is still bound.
C7_Witness ==
    /\ call.op = "Handle" /\ call.arg = "/images/" /\ call.h = "files"
    /\ call.panic = "gopher: multiple registrations for /images/"
    /\ "/images/" \in DOMAIN mux /\ mux["/images/"].h = "hello"

Dispatched(c) == pc[c] \in {"handling", "returned", "done", "panicked"}

\* C8: the handler dispatch resolves is never nil; when no registered
\* pattern matches the selector it is the not-found handler with the empty
\* pattern, and the reply of that handler, once End has succeeded, is one
\* ERROR item 'resource not found' with host error.host and port 1,
\* followed by the terminator line.
C8_NotFound ==
    \A c \in Conns :
        Dispatched(c) =>
            /\ hnd[c] # Nil
            /\ Matching(req[c].Selector) = {} =>
                /\ hnd[c] = NotFoundH /\ pat[c] = ""
                /\ (pc[c] = "done" /\ ret[c].err = "nil") =>
                    resp[c].wire =
                        "3resource not found\t\terror.host\t1\r\n.\r\n"

\* With '/hello' registered, a request for '/other' was answered by the
\* not-found reply.
C8_Witness ==
    \E c \in Conns :
        /\ DOMAIN mux = {"/hello"} /\ req[c].Selector = "/other"
        /\ pc[c] = "done" /\ hnd[c] = NotFoundH /\ closed[c]
        /\ resp[c].wire = "3resource not found\t\terror.host\t1\r\n.\r\n"

\* C9: the steps of conn.serve on one connection come in the order accept,
\* request read, dispatch (the handler is invoked), return of the handler,
\* End, each at most once; a fault of the handler ends the sequence after
\* the dispatch.
C9_Ordering ==
    \A c \in Conns :
        /\ \/ IsPrefix(events[c], <<"accept", "read", "dispatch", "return", "end">>)
           \/ events[c] = <<"accept", "read", "dispatch", "panic">>
        /\ pc[c] = "handling" => events[c] = <<"accept", "read", "dispatch">>
        /\ closed[c] /\ running =>
            events[c] = <<"accept", "read", "dispatch", "return", "end">>

\* A connection that went through all the steps and is closed.
C9_Witness ==
    \E c \in Conns :
        /\ events[c] = <<"accept", "read", "dispatch", "return", "end">>
        /\ pc[c] = "done" /\ closed[c] /\ ret[c].n > 1

\* C10: while the process runs, no step of a connection waits for another
\* connection: a connection that has arrived can be accepted as long as the
\* accept loop runs, and an accepted connection can be read, dispatched,
\* finished, wherever the other connections stand.
C10_AcceptNeverBlocked ==
    running =>
        \A d \in Conns :
            /\ (srv = "open" /\ pc[d] = "idle") => ENABLED Accept(d)
            /\ pc[d] = "accepted" => ENABLED ReadRequest(d)
            /\ pc[d] = "read" => ENABLED Dispatch(d)
            /\ pc[d] = "handling" => ENABLED (HandlerReturn(d) \/ NotFound(d))
            /\ pc[d] = "returned" => ENABLED Finish(d)

\* While one connection sits in its handler, which has not written
\* anything yet, another connection has been served and closed.
C10_Witness ==
    \E c, d \in Conns :
        /\ c # d /\ srv = "open" /\ running
        /\ pc[c] = "handling" /\ hnd[c] \in AppHandlers /\ ret[c].n = 0
        /\ pc[d] = "done" /\ closed[d]
        /\ resp[d].wire = "iHello World!\t\terror.host\t1\r\n.\r\n"

\* C14: for every well-formed item (a type of the enumeration; description,
\* selector, host and extras free of TAB, CR and LF), ParseItem of the bytes
\* MarshalText gives for it succeeds and yields an item with the same type,
\* description, selector, host, port and extras.
C14_RoundTrip ==
    codec.op = "MarshalText" =>
        /\ codec.res.err = "nil"
        /\ codec.res.item.Type = codec.item.Type
        /\ codec.res.item.Description = codec.item.Description
        /\ codec.res.item.Selector = codec.item.Selector
        /\ codec.res.item.Host = codec.item.Host
        /\ codec.res.item.Port = codec.item.Port
        /\ codec.res.item.Extras = codec.item.Extras

\* A round trip of an item with extras, an empty host and the lowest port.
C14_Witness ==
    /\ codec.op = "MarshalText"
    /\ codec.item.Extras = <<"", "y">>
    /\ codec.item.Host = ""
    /\ codec.item.Port = MinInt
    /\ codec.res.err = "nil"
    /\ codec.res.item = codec.item

\* C15: for every line ParseItem accepts, with result p, ParseItem of
\* MarshalText(p) succeeds and equals p, and marshalling that result again
\* gives the bytes MarshalText(p): the defaults ParseItem fills in for
\* missing fields are the same after any number of round trips.
C15_Idempotent ==
    codec.op = "ParseItem" /\ codec.res.err = "nil" =>
        LET p == codec.res.item
            again == ParseItem(MarshalText(p))
        IN /\ again.err = "nil"
           /\ again.item = p
           /\ MarshalText(again.item) = MarshalText(p)

\* The line "0": the defaults are filled in and survive the round trip.
C15_Witness ==
    /\ codec.op = "ParseItem"
    /\ codec.line = "0"
    /\ codec.res.err = "nil"
    /\ codec.res.item.Host = "null.host"
    /\ MarshalText(codec.res.item) = "0\t\tnull.host\t0\r\n"
    /\ ParseItem(MarshalText(codec.res.item)).item = codec.res.item

\* The first tab-separated field of a line is empty once the line ends are
\* trimmed off.
FirstFieldEmpty(line) ==
    LET t == Trim(line) IN t = "" \/ Char(t, 1) = TAB

\* C16: ParseItem fails and returns no item for every line whose first
\* tab-separated field is empty after the line ends are trimmed; an item
\* ParseItem returns always has a type.
C16_EmptyTypeRejected ==
    codec.op = "ParseItem" =>
        /\ FirstFieldEmpty(codec.line) =>
              codec.res.err # "nil" /\ codec.res.item = NoItem
        /\ codec.res.err = "nil" => Len(codec.res.item.Type) = 1

\* A line that starts with TAB after its line ends are trimmed is rejected.
C16_Witness ==
    /\ codec.op = "ParseItem"
    /\ codec.line = "\r\n\t/foo\tlocalhost\t70\r\n"
    /\ codec.res.err = "no item type"
    /\ codec.res.item = NoItem

\* Field 3 of a line with a type is present and is no integer of the
\* program's int.
MalformedPort(line) ==
    LET fields == Split(Trim(line), TAB)
    IN /\ ~FirstFieldEmpty(line)
       /\ Len(fields) > 3
       /\ Atoi(fields[4]).err # "nil"

\* C17: when field 3 of a line is present and is not a valid integer,
\* ParseItem fails and returns no item for every type other than INFO, and
\* for INFO it succeeds with port 0.
C17_MalformedPort ==
    codec.op = "ParseItem" /\ MalformedPort(codec.line) =>
        IF Char(Trim(codec.line), 1) # INFO
        THEN codec.res.err # "nil" /\ codec.res.item = NoItem
        ELSE codec.res.err = "nil" /\ codec.res.item.Port = 0

\* The lines of a reply that precede its first line that is solely '.'.
RECURSIVE BeforeEnd(_)
BeforeEnd(lines) ==
    IF lines = <<>> \/ Head(lines) = "." THEN <<>>
    ELSE <<Head(lines)>> \o BeforeEnd(Tail(lines))

Accepted(line) == line # "" /\ ParseItem(line).err = "nil"

\* The items of the lines the codec accepts, in the order of the lines.
ItemsOf(lines) ==
    LET good == SelectSeq(lines, Accepted)
    IN [k \in 1..Len(good) |-> ParseItem(good[k]).item]

\* C13: FetchDirectory on a reply returns no error and the Directory of
\* exactly the lines the codec accepts among those that precede the first
\* line that is solely '.', in their wire order: blank lines and rejected
\* lines are dropped, however many there are, and the scan goes on.
C13_ScanTolerant ==
    cli.op = "FetchDirectory" /\ isDirectoryLike(cli.item)
            /\ cli.net.dial /\ cli.net.write =>
        /\ cli.err = "nil"
        /\ cli.fetch.dir = ItemsOf(BeforeEnd(cli.lines))

\* A reply with a rejected line between two well-formed ones and the
\* terminator: both items are returned.
C13_Witness ==
    /\ cli.op = "FetchDirectory"
    /\ cli.lines = <<"0foo\t/foo\tlocalhost\t70", "\tbad",
                     "iHello World!\t\terror.host\t1">>
    /\ cli.net.reply = "0foo\t/foo\tlocalhost\t70\r\n\tbad\r\n"
                           \o "iHello World!\t\terror.host\t1\r\n"
    /\ cli.err = "nil"
    /\ Len(cli.fetch.dir) = 2
    /\ cli.fetch.dir[1].Type = FILE /\ cli.fetch.dir[2].Type = INFO

\* The URL passes the checks Get makes before it looks at the path: the
\* scheme is gopher and a port, when given alone after the host, is a number.
ValidAddress(u) ==
    /\ u.Scheme = "gopher"
    /\ Len(Split(u.Host, ":")) = 2 => Atoi(Split(u.Host, ":")[2]).err = "nil"

\* C18: Get requests the root menu (type DIRECTORY, empty selector) when
\* the URI path without its leading '/' is empty or one character long; for
\* a path of two or more characters it requests the type given by the first
\* character with the remaining characters as the selector, followed by
\* TAB and the query when the URI has one.
C18_RequestDerivation ==
    cli.op = "Get" /\ ValidAddress(cli.u) =>
        LET path == IF HasPrefix(cli.u.Path, "/") THEN Tail(cli.u.Path)
                    ELSE cli.u.Path
        IN IF Len(path) <= 1
           THEN cli.item.Type = DIRECTORY /\ cli.item.Selector = ""
           ELSE /\ cli.item.Type = Char(path, 1)
                /\ cli.item.Selector =
                      Tail(path) \o (IF cli.u.RawQuery # ""
                                     THEN TAB \o cli.u.RawQuery ELSE "")

\* C19: FetchFile on an item of type DIRECTORY or INDEXSEARCH fails as an
\* unsupported fetch without dialing and without sending a byte, and so
\* does FetchDirectory on an item of any other type.
C19_FetchRefusals ==
    /\ cli.op = "FetchFile" /\ cli.item.Type \in {DIRECTORY, INDEXSEARCH} =>
          /\ cli.err = "cannot fetch a directory as a file"
          /\ ~cli.fetch.dialed /\ cli.fetch.sent = ""
    /\ cli.op = "FetchDirectory" /\ cli.item.Type \notin {DIRECTORY, INDEXSEARCH} =>
          /\ cli.err = "cannot fetch a file as a directory"
          /\ ~cli.fetch.dialed /\ cli.fetch.sent = ""

\* C20: the selector of every Request handed to a handler starts with
\* '/': an empty request line has become '/', a line without a leading '/'
\* has got one prepended, a line with a leading '/' is unchanged.
C20_SelectorNormalized ==
    \A c \in Conns :
        Dispatched(c) =>
            LET line == rd[c].text
                s == req[c].Selector
            IN /\ HasPrefix(s, "/")
               /\ line = "" => s = "/"
               /\ line # "" /\ ~HasPrefix(line, "/") => s = "/" \o line
               /\ HasPrefix(line, "/") => s = line

\* The request line hello reaches the handler registered at /hello as the
\* selector /hello.
C20_Witness ==
    \E c \in Conns :
        /\ pc[c] = "handling"
        /\ rd[c] = [kind |-> "line", text |-> "hello"]
        /\ req[c].Selector = "/hello"
        /\ hnd[c] = "hello"

\* What FetchDirectory of the selector a client sent on connection c gets
\* when it reads the bytes the server put on the wire of c.
Fetches(c) ==
    FetchDirectory([Type |-> DIRECTORY, Description |-> "",
                    Selector |-> rd[c].text, Host |-> ListenHost,
                    Port |-> ListenPort, Extras |-> <<>>],
                   [dial |-> TRUE, write |-> TRUE, reply |-> resp[c].wire])

\* The handler of connection c wrote a menu, has returned, and End has
\* sent the reply and closed the transport.
MenuServed(c) ==
    /\ rd[c].kind = "line"
    /\ pc[c] = "done" /\ closed[c] /\ running
    /\ resp[c].rt = 2 /\ ~resp[c].err /\ resp[c].buf = ""

\* The handler of connection c, resolved for /hello, made one writer call,
\* WriteInfo("Hello World!"), before End.
HelloServed(c) ==
    /\ pat[c] = "/hello"
    /\ ret[c].n = 2
    /\ sent[c] = <<[Type |-> INFO, Description |-> "Hello World!", Selector |-> "",
                    Host |-> "error.host", Port |-> 1, Extras |-> <<>>]>>

C12_FileServing ==
    \A c \in Conns :
        /\ MenuServed(c) /\ hnd[c] = FileServerH
        /\ fsys.disk = DiskOf(fsys.root, Single)
        /\ rd[c].text \in {"", "/"}
        => /\ Fetches(c).err = "nil"
           /\ Len(Fetches(c).dir) = 1
           /\ Fetches(c).dir[1].Type = FILE
           /\ Fetches(c).dir[1].Description = "hello.txt"
           /\ Fetches(c).dir[1].Selector = "/hello.txt"
           /\ Fetches(c).dir[1].Host = ListenHost
           /\ Fetches(c).dir[1].Port = ListenPort

\* C21: a WriteItem call the writer accepts for an item with no host and no
\* port emits the item's line with the local host and the local port of the
\* request; for an item that has a host or a port it emits the line with
\* the item's own host and port.
C21_HostPortInheritance ==
    [][\A c \in Conns :
        (WriterCall(c) /\ ret'[c].op = "WriteItem" /\ ret'[c].err = "nil") =>
            LET i == ret'[c].arg
                host == IF i.Host = "" /\ i.Port = 0 THEN req[c].LocalHost
                        ELSE i.Host
                port == IF i.Host = "" /\ i.Port = 0 THEN req[c].LocalPort
                        ELSE i.Port
            IN wrote'[c] = wrote[c] \o i.Type \o i.Description \o TAB
                               \o i.Selector \o TAB \o host \o TAB
                               \o Itoa(port) \o CRLF]_vars

\* An item with neither was emitted with the listener's host and port, and
\* then one with a port only with an empty host and that port.
C21_Witness ==
    \E c \in Conns :
        /\ ret[c].op = "WriteItem" /\ ret[c].err = "nil"
        /\ ret[c].arg.Host = "" /\ ret[c].arg.Port = 70
        /\ wrote[c] = "0foo\t/foo\tlocalhost\t7000\r\n0foo\t/foo\t\t70\r\n"

\* C22: with a subtree pattern such as /images/ registered and the pattern
\* without its trailing slash not registered, a request for the subtree
\* root without the slash (/images) is served by the handler of the
\* subtree pattern; a registration of /images itself takes the request.
C22_SubtreeRoot ==
    (call.op = "Handler") =>
        /\ \A p \in DOMAIN mux :
                (/\ Len(p) > 1 /\ Char(p, Len(p)) = "/"
                 /\ call.arg = SubSeq(p, 1, Len(p) - 1)
                 /\ call.arg \notin DOMAIN mux)
                => call.h = mux[p].h
        /\ call.arg \in DOMAIN mux => call.h = mux[call.arg].h

\* C23: the router dispatches on the cleaned form of the selector: a
\* selector with '.' or '..' elements or repeated slashes resolves to the
\* handler and pattern its cleaned form resolves to.
C23_CleanedDispatch ==
    (call.op = "Handler") =>
        \E order \in Orders(mux) :
            LET r == handler(mux, cleanPath(call.arg), order)
            IN call.h = r.h /\ call.pattern = r.pattern

\* A goroutine is between the Lock and the Unlock of Handle, or between the
\* RLock and the RUnlock of handler.
InHandle(g) == gs[g].pc \in {"check", "store", "fill", "unlock", "unwind"}
InHandler(g) == gs[g].pc \in {"match", "RUnlock"}

\* C24: while a registration runs, no dispatch and no other registration
\* runs on the router; a dispatch resolves against one of the tables that
\* were complete between its call and its return (the table before a
\* concurrent registration or the one after it), never a partly updated
\* one; and each registration completed adds its one entry to the table
\* before it.
C24_LockDiscipline ==
    /\ \A g \in Goroutines :
            InHandle(g) =>
                \A g2 \in Goroutines \ {g} : ~InHandle(g2) /\ ~InHandler(g2)
    /\ \A g \in Goroutines :
            (gs[g].op = "Handler" /\ gs[g].pc = "done") =>
                \E k \in gs[g].from..gs[g].to :
                    \E order \in Orders(hist[k]) :
                        gs[g].res = handler(hist[k], gs[g].arg, order)
    /\ \A g \in Goroutines :
            (gs[g].op = "Handle" /\ gs[g].pc = "done") =>
                \E k \in (gs[g].from + 1)..gs[g].to :
                    hist[k] = Handle(hist[k - 1], gs[g].arg, gs[g].h).m

\* Two dispatches that began before a registration completed resolve at
\* the same time after it.
C24_Witness ==
    \E w, r1, r2 \in Goroutines :
        /\ r1 # r2
        /\ gs[w].op = "Handle" /\ gs[w].pc = "done"
        /\ InHandler(r1) /\ InHandler(r2)
        /\ gs[r1].from = 1 /\ gs[r2].from = 1

\* C25: on a writer in document mode WriteError(msg) and WriteInfo(msg) do
\* not fail with the mode conflict: they leave the mode at document, and a
\* call that succeeds appends the bytes of msg and nothing else, and no
\* item; End on a writer in document mode adds no terminator to the bytes
\* the calls appended.
C25_DocumentDegrade ==
    [][\A c \in Conns :
        /\ (WriterCall(c) /\ ret'[c].op \in {"WriteError", "WriteInfo"}
                /\ resp[c].rt = 1) =>
                /\ ret'[c].err # "conflict"
                /\ resp'[c].rt = 1
                /\ sent'[c] = sent[c]
                /\ ret'[c].err = "nil" => wrote'[c] = wrote[c] \o ret'[c].arg
        /\ (WriterCall(c) /\ ret'[c].op = "End" /\ ret'[c].err = "nil"
                /\ resp[c].rt = 1) =>
                resp'[c].wire = wrote[c]]_vars

\* A document of "Foo!" and the message of a WriteError or WriteInfo after
\* it, sent as they are and ended without a terminator.
C25_Witness ==
    \E c \in Conns :
        /\ pc[c] = "done" /\ ret[c].op = "End" /\ ret[c].err = "nil"
        /\ resp[c].rt = 1
        /\ sent[c] = <<>>
        /\ resp[c].wire = "Foo!no\tsuch"

\* C26: when the read of the request fails with an error that is neither
\* EOF nor a timeout, conn.serve calls no handler, writes one complete
\* error line (type '3', ended by CRLF) to the connection and closes the
\* connection.
C26_BadRequestReply ==
    \A c \in Conns :
        rd[c].kind = "error" =>
            LET w == resp[c].wire
            IN /\ pc[c] = "done"
               /\ hnd[c] = Nil
               /\ ret[c].n = 0
               /\ Len(w) > 2
               /\ Char(w, 1) = ERROR
               /\ IndexByte(w, "\n") = Len(w)
               /\ SubSeq(w, Len(w) - 1, Len(w)) = CRLF
               /\ closed[c]

\* The string holds no CR and no LF.
NoEOL(str) == IndexByte(str, "\r") = 0 /\ IndexByte(str, "\n") = 0

\* C27: for every line ParseItem accepts, with the fields being the
\* tab-separated parts of the line without its leading and trailing CR and
\* LF: the type is the first character of field 0 and the description the
\* rest of it, the selector is field 1 or "", the host field 2 or
\* "null.host", the port the integer of field 3, or 0 when the field is
\* absent (or, on an INFO line, no integer), the extras are the fields from
\* field 4 on, in their order; no CR or LF of the line ends is in a field.
C27_FieldExtraction ==
    (codec.op = "ParseItem" /\ codec.res.err = "nil") =>
        LET f == Split(Trim(codec.line), TAB)
            it == codec.res.item
        IN /\ it.Type = Char(f[1], 1)
           /\ it.Description = SubSeq(f[1], 2, Len(f[1]))
           /\ it.Selector = (IF Len(f) > 1 THEN f[2] ELSE "")
           /\ it.Host = (IF Len(f) > 2 THEN f[3] ELSE "null.host")
           /\ it.Port = (IF Len(f) > 3 /\ Atoi(f[4]).err = "nil"
                         THEN Atoi(f[4]).n ELSE 0)
           /\ it.Extras = [k \in 1..(Len(f) - 4) |-> f[k + 4]]
           /\ NoEOL(it.Description) /\ NoEOL(it.Selector) /\ NoEOL(it.Host)
           /\ \A k \in DOMAIN it.Extras : NoEOL(it.Extras[k])
           /\ ~IsEOL(it.Type)

\* The bytes of the lines of the items, each with its CRLF.
RECURSIVE TextLen(_)
TextLen(items) ==
    IF items = <<>> THEN 0
    ELSE Len(MarshalText(Head(items))) + TextLen(Tail(items))

\* C28: the text MarshalText gives for an item ends with CRLF, and what
\* precedes the CRLF is, separated by single TABs: the type byte followed
\* by the description, the selector, the host, the port in decimal, and
\* then each extra in order.  Directory.ToText is the lines of its items
\* in their order, each ended by CRLF, and nothing more: no terminator.
C28_Layout ==
    /\ codec.op = "MarshalText" =>
            LET t == codec.text
                i == codec.item
                f == Split(SubSeq(t, 1, Len(t) - 2), TAB)
            IN /\ Len(t) >= 2 /\ SubSeq(t, Len(t) - 1, Len(t)) = CRLF
               /\ Len(f) = 4 + Len(i.Extras)
               /\ f[1] = i.Type \o i.Description
               /\ f[2] = i.Selector
               /\ f[3] = i.Host
               /\ f[4] = Itoa(i.Port) /\ Atoi(f[4]) = [n |-> i.Port, err |-> "nil"]
               /\ \A k \in DOMAIN i.Extras : f[4 + k] = i.Extras[k]
    /\ codec.op = "ToText" =>
            LET lines == ScanLines(codec.text)
            IN /\ Len(lines) = Len(codec.items)
               /\ \A k \in DOMAIN lines :
                      lines[k] \o CRLF = MarshalText(codec.items[k])
               /\ Len(codec.text) = TextLen(codec.items)

\* The text of a directory of two items, the second with extras.
C28_Witness ==
    /\ codec.op = "ToText"
    /\ Len(codec.items) = 2
    /\ codec.text = "0foo\t/foo\tlocalhost\t70\r\n1\t\t\t0\tx\ty\r\n"

\* The file of the served tree a listed item stands for.
FileOf(it) ==
    fsys.disk[pathJoin(IF fsys.root = "" THEN "." ELSE fsys.root, it.Selector)]

\* The items of the listings the file handler sent on connection c.
Listed(c) ==
    IF hnd[c] = FileServerH
    THEN {k \in DOMAIN sent[c] : sent[c][k].Host # "error.host"}
    ELSE {}

\* The types of the entries of the MIME table whose pattern the content
\* type matches.
MimeMatches(mimeType) ==
    {MimeTypes[k] : k \in {k \in DOMAIN MimeTypes : filepathMatch(k, mimeType)}}

\* C29: the type of a listed entry is DIRECTORY for a directory; for a file
\* whose first SniffLen bytes cannot be read (it cannot be opened, or is
\* shorter) the entry of the extension table for its lower-cased
\* extension; for a file whose sniffed content type matches an entry of
\* the MIME table the type of such an entry, and otherwise again the entry
\* of the extension table; BINARY only when no table has an entry.
C29_TypeFallbackChain ==
    \A c \in Conns :
        \A k \in Listed(c) :
            LET it == sent[c][k]
                e == FileOf(it)
                ext == ToLower(filepathExt(it.Description))
                byExt == IF ext \in DOMAIN FileExtensions THEN FileExtensions[ext]
                         ELSE BINARY
                byMime == MimeMatches(Split(e.sniff, ";")[1])
            IN IF e.kind = "dir" THEN it.Type = DIRECTORY
               ELSE IF ~e.readable \/ Len(e.data) < SniffLen THEN it.Type = byExt
               ELSE IF byMime # {} THEN it.Type \in byMime
               ELSE it.Type = byExt

\* The entry of the served tree the selector of connection c names.
Named(c) ==
    pathJoin(IF fsys.root = "" THEN "." ELSE fsys.root,
             pathClean("/" \o req[c].Selector))

\* The names of the entries of directory p that a listing shows: those
\* that do not begin with '.', of directories and regular files.
Shown(p) ==
    {pathBase(q) : q \in {q \in DOMAIN fsys.disk :
                            /\ q # p /\ pathDir(q) = p
                            /\ Char(pathBase(q), 1) # "."
                            /\ fsys.disk[q].kind \in {"dir", "file"}}}

\* The file handler has run on connection c, whose peer took all bytes.
FileServed(c) ==
    /\ hnd[c] = FileServerH /\ pc[c] \in {"returned", "done"} /\ up[c]
    /\ Named(c) \in DOMAIN fsys.disk /\ fsys.disk[Named(c)].readable

\* C30: for a selector that names a directory holding a gophermap the
\* server can open, the file handler writes the bytes of the gophermap
\* unchanged, as a document, and no item; for a directory without one it
\* writes one item for each entry shown, and no other byte; for a regular
\* file it writes the bytes of the file unchanged, as a document.
C30_GophermapOverride ==
    \A c \in Conns :
        FileServed(c) =>
            LET p == Named(c)
                gm == pathJoin(p, "gophermap")
                doc(data) == /\ wrote[c] = data /\ sent[c] = <<>>
                             /\ resp[c].rt = (IF data = "" THEN 0 ELSE 1)
            IN IF fsys.disk[p].kind = "file" THEN doc(fsys.disk[p].data)
               ELSE IF fsys.disk[p].kind # "dir" THEN TRUE
               ELSE IF /\ gm \in DOMAIN fsys.disk
                       /\ fsys.disk[gm].kind = "file" /\ fsys.disk[gm].readable
               THEN doc(fsys.disk[gm].data)
               ELSE /\ Len(sent[c]) = Cardinality(Shown(p))
                    /\ {sent[c][k].Description : k \in DOMAIN sent[c]} = Shown(p)
                    /\ wrote[c] = ToText(sent[c])
                    /\ resp[c].rt = (IF Shown(p) = {} THEN 0 ELSE 2)

\* A client that asked for docs received the bytes of docs/gophermap and
\* nothing else, and the transport was closed.
C30_Witness ==
    \E c \in Conns :
        /\ FileServed(c) /\ pc[c] = "done" /\ closed[c]
        /\ fsys.disk = DiskOf(fsys.root, Mapped)
        /\ req[c].Selector = "/docs"
        /\ resp[c].wire = "iMap\n.\r\n1a\ta.md"
        /\ sent[c] = <<>>

\* The error of opening the entry the selector of connection c names: the
\* name has a NUL byte, no such entry exists, or the server may not open
\* it; "nil" when it can be opened.
OpenError(c) ==
    IF IndexByte(req[c].Selector, NUL) # 0
    THEN "gopher: invalid character in file path"
    ELSE IF Named(c) \notin DOMAIN fsys.disk
    THEN "open " \o Named(c) \o ": no such file or directory"
    ELSE IF ~fsys.disk[Named(c)].readable
    THEN "open " \o Named(c) \o ": permission denied"
    ELSE "nil"

\* Connection c was served to its end by the file handler, and its peer
\* took all bytes.
FileDone(c) ==
    hnd[c] = FileServerH /\ pc[c] = "done" /\ up[c]

\* C31: when the entry the selector names cannot be opened, the server
\* keeps running, the reply on the wire is the line of one ERROR item with
\* the text of the error followed by the '.' line, and the transport is
\* closed.
C31_OpenErrorItem ==
    \A c \in Conns :
        (FileDone(c) /\ OpenError(c) # "nil") =>
            /\ running /\ closed[c]
            /\ sent[c] = <<[Type |-> ERROR, Description |-> OpenError(c),
                            Selector |-> "", Host |-> "error.host", Port |-> 1,
                            Extras |-> <<>>]>>
            /\ resp[c].wire = ERROR \o OpenError(c) \o TAB \o TAB \o "error.host"
                                  \o TAB \o "1" \o CRLF \o END \o CRLF

\* One client asked for a missing file, another for a name with a NUL
\* byte, and both received the error item.
C31_Witness ==
    \E c, d \in Conns :
        /\ FileDone(c) /\ closed[c] /\ FileDone(d) /\ closed[d]
        /\ fsys.root = "./testdata"
        /\ req[c].Selector = "/nofile"
        /\ sent[c][1].Description = "open testdata/nofile: no such file or directory"
        /\ IndexByte(req[d].Selector, NUL) # 0
        /\ sent[d][1].Type = ERROR

\* The path p names the directory root or a file below it: it is rooted
\* when root is, begins with the elements of root, and has no '..'
\* element.
Under(p, root) ==
    LET pe == SelectSeq(Split(p, "/"), LAMBDA e : e # "" /\ e # ".")
        re == SelectSeq(Split(root, "/"), LAMBDA e : e # "" /\ e # ".")
    IN /\ HasPrefix(p, "/") <=> HasPrefix(root, "/")
       /\ Len(pe) >= Len(re)
       /\ SubSeq(pe, 1, Len(re)) = re
       /\ \A k \in DOMAIN pe : pe[k] # ".."

\* What Dir.Open did for the selector of connection c, which the file
\* handler hands on cleaned.
Opened(c) == DirOpen(fsys, pathClean(req[c].Selector))

\* C32: when the file handler returns, for every selector, the path
\* Dir.Open handed to the operating system names the root directory or a
\* file below it, also for the gophermap it looked for; for a selector
\* with a NUL byte it handed none, and the reply is the error item of an
\* invalid path.
C32_RootConfinement ==
    \A c \in Conns :
        (hnd[c] = FileServerH /\ pc[c] = "returned") =>
            LET f == Opened(c)
                ff == DirOpen(fsys, pathClean(req[c].Selector) \o "/gophermap")
            IN IF IndexByte(req[c].Selector, NUL) # 0
               THEN /\ f.name = ""
                    /\ ret[c].op = "WriteError"
                    /\ up[c] =>
                           /\ Len(sent[c]) = 1
                           /\ sent[c][1].Type = ERROR
                           /\ sent[c][1].Description =
                                  "gopher: invalid character in file path"
               ELSE /\ Under(f.name, fsys.root)
                    /\ Under(ff.name, fsys.root)
                    /\ (up[c] /\ f.err # "nil") =>
                           sent[c][1].Description = f.err

\* A client asked for /..//../etc/passwd of the tree under /srv/gopher, and
\* the server looked for /srv/gopher/etc/passwd.
C32_Witness ==
    \E c \in Conns :
        /\ FileDone(c) /\ closed[c]
        /\ fsys.root = "/srv/gopher"
        /\ req[c].Selector = "/..//../etc/passwd"
        /\ sent[c][1].Description =
               "open /srv/gopher/etc/passwd: no such file or directory"

\* The listed items of connection c for files whose content type was
\* sniffed.
Sniffed(c) ==
    {k \in Listed(c) : /\ FileOf(sent[c][k]).kind = "file"
                        /\ FileOf(sent[c][k]).readable
                        /\ Len(FileOf(sent[c][k]).data) >= SniffLen}

\* C33: a file of a given sniffed content type is listed with the same
\* type in every listing, and a file whose content type is text/html or
\* image/gif, which the entries text/* and image/* match too, is listed
\* with the type of the exact entry, HTML or GIF.
C33_MimeExact ==
    \A c \in Conns :
        \A k \in Sniffed(c) :
            LET mimeType == Split(FileOf(sent[c][k]).sniff, ";")[1]
            IN /\ mimeType \in DOMAIN MimeTypes =>
                     sent[c][k].Type = MimeTypes[mimeType]
               /\ \A d \in Conns :
                     \A j \in Sniffed(d) :
                        Split(FileOf(sent[d][j]).sniff, ";")[1] = mimeType
                            => sent[d][j].Type = sent[c][k].Type

\* Goroutine g waits for mux.mu.
AtLock(g) == gs[g].pc \in {"Lock", "Locking", "RLock"}

\* C34: a goroutine whose handler runs holds mux.mu in no way; the Handle a
\* handler calls on the router during its own invocation ends, and the
\* handler returns unless Handle panicked; and every goroutine that waits
\* for the lock gets it, also when handlers of other goroutines never
\* return.
C34_LockFreeHandler ==
    /\ [](\A g \in Goroutines :
            gs[g].pc \in {"serving", "blocked", "returned"} =>
                g \notin mu.readers /\ mu.writer # g /\ g \notin mu.waiting)
    /\ \A g \in Goroutines :
            (gs[g].nested /\ AtLock(g)) ~> gs[g].pc \in {"returned", "panicked"}
    /\ \A g \in Goroutines : AtLock(g) ~> ~AtLock(g)

\* While the handler of one goroutine never returns, the handler of another
\* has registered a pattern during its invocation and returned, and a
\* third goroutine has registered a pattern.
C34_Witness ==
    \E g, k, j \in Goroutines :
        /\ gs[g].pc = "blocked"
        /\ gs[k].pc = "returned" /\ gs[k].nested /\ gs[k].panic = ""
        /\ gs[k].to > gs[g].to
        /\ gs[j].op = "Handle" /\ ~gs[j].nested /\ gs[j].pc = "done"

\* The registered patterns that name the selector, or a subtree it is in.
Naming(selector) ==
    {p \in DOMAIN mux :
        IF Char(p, Len(p)) = "/" THEN HasPrefix(selector, p) ELSE p = selector}

\* C35: on a server that has the pattern '/' registered, whatever a client
\* sends, or fails to send, the request is never given to the not-found
\* handler: its selector begins with '/', and it is given to the handler
\* of the longest registered pattern that names it, '/' when no other
\* does.
C35_CatchAllRoot ==
    \A c \in Conns :
        ("/" \in DOMAIN mux /\ pc[c] \in {"handling", "returned", "done"}) =>
            /\ HasPrefix(req[c].Selector, "/")
            /\ hnd[c] # NotFoundH
            /\ pat[c] \in Naming(req[c].Selector)
            /\ \A p \in Naming(req[c].Selector) : Len(p) <= Len(pat[c])
            /\ hnd[c] = mux[pat[c]].h
            /\ ~\E k \in DOMAIN sent[c] :
                    sent[c][k].Description = "resource not found"

\* With '/' and /hello registered for different handlers, a client that
\* sent the line other was served by the handler of '/', and one that sent
\* hello by the handler of /hello.
C35_Witness ==
    \E c, d \in Conns :
        /\ {"/", "/hello"} \subseteq DOMAIN mux
        /\ mux["/"].h # mux["/hello"].h
        /\ pc[c] = "done" /\ rd[c] = [kind |-> "line", text |-> "other"]
        /\ pat[c] = "/" /\ hnd[c] = mux["/"].h
        /\ pc[d] = "done" /\ rd[d] = [kind |-> "line", text |-> "hello"]
        /\ pat[d] = "/hello" /\ hnd[d] = mux["/hello"].h

\* The reply of the last fetch holds complete lines only: the stream ended
\* after a line end, or before any byte.
WholeLines ==
    \/ cli.net.reply = ""
    \/ Char(cli.net.reply, Len(cli.net.reply)) = "\n"

\* C36: a FetchDirectory that has sent its request returns no error,
\* whatever the reply and wherever it ends; for a reply that ends after
\* complete lines it returns the Directory it returns for the same lines
\* followed by the '.' line.
C36_TruncatedMenu ==
    (cli.op = "FetchDirectory" /\ cli.fetch.sent # "") =>
        /\ cli.err = "nil" /\ cli.fetch.err = "nil"
        /\ WholeLines =>
                cli.fetch.dir =
                    FetchDirectory(cli.item,
                                   [cli.net EXCEPT !.reply = @ \o END \o CRLF]).dir

\* The peer sent the lines of two items and closed the stream without a
\* '.' line, and the fetch returned the two items and no error.
C36_Witness ==
    /\ cli.op = "FetchDirectory"
    /\ cli.net.reply = "iHello World!\t\terror.host\t1\r\n0foo\t/foo\tlocalhost\t70\r\n"
    /\ cli.err = "nil"
    /\ Len(cli.fetch.dir) = 2
    /\ cli.fetch.dir[2].Selector = "/foo"

====
